---- MODULE Spec2Model ----
(***************************************************************************)
(* A model of utils/technical_indicators.py: the TechnicalIndicators       *)
(* object (its private frame self.data and the methods that fill it) and   *)
(* the rule-based recommendation computed from the indicator signals.      *)
(***************************************************************************)
EXTENDS Integers, Sequences, FiniteSets, TLC

VARIABLES
    results,   \* the results dict of calculate_all_indicators, as compiled so far
    heap,      \* the DataFrame objects: the caller's and the one self.data holds
    self_data, \* which object self.data refers to ("unset" before __init__)
    call       \* the last method call and its arguments

vars == <<results, heap, self_data, call>>

\* Python's None, as a value that compares with dicts and frames.
None == [py |-> "None"]

Min(a, b) == IF a <= b THEN a ELSE b
Max(a, b) == IF a >= b THEN a ELSE b

Abs(a) == IF a < 0 THEN -a ELSE a

RECURSIVE GCD(_, _)
GCD(a, b) == IF b = 0 THEN a ELSE GCD(b, a % b)

(***************************************************************************)
(* Values are named by passing them to an operator,  With(v, LAMBDA x :    *)
(* ...),  so that each is computed once wherever it is used.               *)
(***************************************************************************)
With(v, F(_)) == F(v)

(***************************************************************************)
(* A loop over rows lo..hi that appends Step(acc, i) to the series acc     *)
(* built so far, for i = lo, lo+1, ..., hi in this order.  The range is    *)
(* halved so that the evaluation nests only as deep as log(hi - lo); the   *)
(* test on Len makes the first half complete before the second starts.     *)
(***************************************************************************)
Completed(first, Then(_)) == IF Len(first) >= 0 THEN Then(first) ELSE first

RECURSIVE Iterate(_, _, _, _)
Iterate(Step(_, _), acc, lo, hi) ==
    IF lo > hi THEN acc
    ELSE IF lo = hi THEN Append(acc, Step(acc, lo))
    ELSE Completed(Iterate(Step, acc, lo, (lo + hi) \div 2),
                   LAMBDA first :
                       Iterate(Step, first, (lo + hi) \div 2 + 1, hi))

\* the lists F(lo), ..., F(hi) joined in this order
RECURSIVE Concat(_, _, _)
Concat(F(_), lo, hi) ==
    IF lo > hi THEN <<>>
    ELSE IF lo = hi THEN F(lo)
    ELSE Concat(F, lo, (lo + hi) \div 2)
         \o Concat(F, (lo + hi) \div 2 + 1, hi)

\* the series F(1), F(2), ..., F(n)
Series(F(_), n) == Iterate(LAMBDA acc, i : F(i), <<>>, 1, n)

(***************************************************************************)
(* float64 values, with exact arithmetic in place of rounding: n/d in      *)
(* lowest terms with d > 0, and the three special values 1/0 (inf),        *)
(* -1/0 (-inf) and 0/0 (NaN).                                              *)
(***************************************************************************)
NaN == [n |-> 0, d |-> 0]
Inf == [n |-> 1, d |-> 0]
NegInf == [n |-> -1, d |-> 0]

Rat(n, d) ==
    IF d = 0 THEN (IF n > 0 THEN Inf ELSE IF n < 0 THEN NegInf ELSE NaN)
    ELSE With(GCD(Abs(n), Abs(d)), LAMBDA g :
             IF d > 0 THEN [n |-> n \div g, d |-> d \div g]
             ELSE [n |-> (-n) \div g, d |-> (-d) \div g])

Num(k) == [n |-> k, d |-> 1]

isna(x) == x.d = 0 /\ x.n = 0
IsInf(x) == x.d = 0 /\ x.n # 0
Sign(x) == IF x.n > 0 THEN 1 ELSE IF x.n < 0 THEN -1 ELSE 0

FNeg(x) == [n |-> -x.n, d |-> x.d]

FAdd(a, b) ==
    IF isna(a) \/ isna(b) THEN NaN
    ELSE IF IsInf(a) /\ IsInf(b) THEN (IF a = b THEN a ELSE NaN)
    ELSE IF IsInf(a) THEN a
    ELSE IF IsInf(b) THEN b
    ELSE Rat(a.n * b.d + b.n * a.d, a.d * b.d)

FSub(a, b) == FAdd(a, FNeg(b))

FAbs(x) == [n |-> Abs(x.n), d |-> x.d]

FMul(a, b) ==
    IF isna(a) \/ isna(b) THEN NaN
    ELSE IF IsInf(a) \/ IsInf(b) THEN Rat(Sign(a) * Sign(b), 0)
    ELSE Rat(a.n * b.n, a.d * b.d)

\* IEEE division: x/0 is an infinity of x's sign, 0/0 and inf/inf are NaN.
FDiv(a, b) ==
    IF isna(a) \/ isna(b) THEN NaN
    ELSE IF IsInf(a) /\ IsInf(b) THEN NaN
    ELSE IF IsInf(a) THEN (IF Sign(b) < 0 THEN FNeg(a) ELSE a)
    ELSE IF IsInf(b) THEN Num(0)
    ELSE Rat(a.n * b.d, a.d * b.n)

\* Comparisons: every comparison with NaN is false.
FLt(a, b) ==
    /\ ~isna(a) /\ ~isna(b)
    /\ a # b
    /\ IF IsInf(a) THEN a = NegInf
       ELSE IF IsInf(b) THEN b = Inf
       ELSE a.n * b.d < b.n * a.d

FGt(a, b) == FLt(b, a)
FLe(a, b) == ~isna(a) /\ ~isna(b) /\ (a = b \/ FLt(a, b))
FGe(a, b) == FLe(b, a)

(***************************************************************************)
(* Python's  needle in hay  on strings: hay has a slice equal to needle.   *)
(***************************************************************************)
StrIn(needle, hay) ==
    \E i \in 1..(Len(hay) - Len(needle) + 1) :
        SubSeq(hay, i, i + Len(needle) - 1) = needle

----------------------------------------------------------------------------
(***************************************************************************)
(* Exact integers of any size, for the exponential averages, whose         *)
(* denominators grow with every bar.  A natural is its limbs, least        *)
(* significant first, with no leading zero limb (zero is the empty         *)
(* sequence); an integer is a sign and a natural.  Multipliers stay below  *)
(* MaxMultiplier so that no limb product exceeds TLC's integers.           *)
(***************************************************************************)
LimbBase == 1000 * 1000
MaxMultiplier == 2 * 1000

RECURSIVE NatOfInt(_)
NatOfInt(k) ==
    IF k = 0 THEN <<>> ELSE <<k % LimbBase>> \o NatOfInt(k \div LimbBase)

\* The limbs of a carry chain: row i holds the digit d it leaves and the
\* carry c it hands to row i + 1.
Digits(steps) == Series(LAMBDA i : steps[i].d, Len(steps))

CarryOut(steps) == IF steps = <<>> THEN 0 ELSE steps[Len(steps)].c

Limb(v) == [d |-> v % LimbBase, c |-> v \div LimbBase]

\* the digits of a chain, then those of its last carry
Carried(steps) == Digits(steps) \o NatOfInt(CarryOut(steps))

\* a * k for 0 <= k <= MaxMultiplier
NatMul(a, k) ==
    IF k = 0 THEN <<>>
    ELSE Carried(Iterate(LAMBDA acc, i : Limb(a[i] * k + CarryOut(acc)),
                         <<>>, 1, Len(a)))

NatAdd(a, b) ==
    Carried(Iterate(LAMBDA acc, i :
                        Limb((IF i <= Len(a) THEN a[i] ELSE 0)
                             + (IF i <= Len(b) THEN b[i] ELSE 0)
                             + CarryOut(acc)),
                    <<>>, 1, Max(Len(a), Len(b))))

\* the largest member of a non-empty set of numbers
Highest(S) == CHOOSE i \in S : \A j \in S : j <= i

\* the order of two numbers of the same length, by the rows where they differ
NatCmpAt(a, b, differ) ==
    IF differ = {} THEN 0
    ELSE IF a[Highest(differ)] < b[Highest(differ)] THEN -1 ELSE 1

\* -1, 0 or 1 as a < b, a = b, a > b
NatCmp(a, b) ==
    IF Len(a) < Len(b) THEN -1
    ELSE IF Len(a) > Len(b) THEN 1
    ELSE NatCmpAt(a, b, {i \in 1..Len(a) : a[i] # b[i]})

KeepUpTo(a, nonzero) ==
    IF nonzero = {} THEN <<>> ELSE SubSeq(a, 1, Highest(nonzero))

StripZeros(a) == KeepUpTo(a, {i \in 1..Len(a) : a[i] # 0})

Borrow(v) == [d |-> (v + LimbBase) % LimbBase, c |-> IF v < 0 THEN 1 ELSE 0]

\* a - b for a >= b
NatSub(a, b) ==
    StripZeros(Digits(Iterate(LAMBDA acc, i :
                                  Borrow(a[i] - (IF i <= Len(b) THEN b[i] ELSE 0)
                                         - CarryOut(acc)),
                              <<>>, 1, Len(a))))

Quotient(v, k) == [d |-> v \div k, c |-> v % k]

DigitsReversed(steps) ==
    Series(LAMBDA i : steps[Len(steps) + 1 - i].d, Len(steps))

\* a \div k for 0 < k <= MaxMultiplier; the chain runs from the top limb
NatDiv(a, k) ==
    StripZeros(DigitsReversed(
        Iterate(LAMBDA acc, i :
                    Quotient(CarryOut(acc) * LimbBase + a[Len(a) + 1 - i], k),
                <<>>, 1, Len(a))))

BigZero == [s |-> 0, m |-> <<>>]

BigOfInt(k) ==
    [s |-> IF k > 0 THEN 1 ELSE IF k < 0 THEN -1 ELSE 0, m |-> NatOfInt(Abs(k))]

BigNeg(x) == [x EXCEPT !.s = -@]

BigAdd(x, y) ==
    IF x.s = 0 THEN y
    ELSE IF y.s = 0 THEN x
    ELSE IF x.s = y.s THEN [s |-> x.s, m |-> NatAdd(x.m, y.m)]
    ELSE With(NatCmp(x.m, y.m), LAMBDA c :
             IF c = 0 THEN BigZero
             ELSE IF c > 0 THEN [s |-> x.s, m |-> NatSub(x.m, y.m)]
             ELSE [s |-> y.s, m |-> NatSub(y.m, x.m)])

BigSub(x, y) == BigAdd(x, BigNeg(y))

\* x * k for |k| <= MaxMultiplier
BigMul(x, k) ==
    IF k = 0 \/ x.s = 0 THEN BigZero
    ELSE [s |-> IF k > 0 THEN x.s ELSE -x.s, m |-> NatMul(x.m, Abs(k))]

\* x / k for 0 < k <= MaxMultiplier, where k divides x
BigDiv(x, k) ==
    IF x.s = 0 THEN BigZero ELSE [s |-> x.s, m |-> NatDiv(x.m, k)]

\* the sign of x - y
BigCmp(x, y) == BigSub(x, y).s

----------------------------------------------------------------------------
(***************************************************************************)
(* DataFrames.  A frame is its rows (the bars, with the raw columns Date,  *)
(* Open, High, Low, Close, Volume) and its derived columns, each a series  *)
(* as long as the frame.  A Date is a string or, after pd.to_datetime, a  *)
(* Timestamp; both carry the day number.                                   *)
(***************************************************************************)
Frame(rows) == [rows |-> rows, cols |-> <<>>]

len(frame) == Len(frame.rows)

Column(frame, name) == Series(LAMBDA i : frame.rows[i][name], len(frame))

Close(frame) == Column(frame, "Close")

\* self.data[name] = series, for each name of new: existing columns are
\* overwritten, the others are added.
SetCols(frame, new) == [frame EXCEPT !.cols = new @@ @]

\* series.iloc[-1]
Last(series) == series[Len(series)]

\* Series.diff(): NaN first, then the difference to the row before.
diff(xs) ==
    Series(LAMBDA i : IF i = 1 THEN NaN ELSE Num(xs[i] - xs[i - 1]), Len(xs))

RECURSIVE SumRange(_, _, _)
SumRange(xs, lo, hi) ==
    IF lo > hi THEN Num(0)
    ELSE IF lo = hi THEN xs[lo]
    ELSE LET mid == (lo + hi) \div 2
         IN  FAdd(SumRange(xs, lo, mid), SumRange(xs, mid + 1, hi))

RollingMeanPartial(xs, window) ==
    Series(LAMBDA i : FDiv(SumRange(xs, Max(1, i - window + 1), i),
                           Num(Min(i, window))),
           Len(xs))

\* Series.rolling(window).mean(): NaN until the window is full (min_periods
\* is the window) or when it holds a NaN, else the mean of the last
\* `window` values.
rolling_mean(xs, window) ==
    Series(LAMBDA i : IF i < window THEN NaN
                      ELSE FDiv(SumRange(xs, i - window + 1, i), Num(window)),
           Len(xs))

\* A series of numbers as float64 values.
Floats(xs) == Series(LAMBDA i : Num(xs[i]), Len(xs))

\* Series.rolling(window).std(): the sample variance (ddof = 1) of the last
\* `window` values, NaN until the window is full; the standard deviation
\* is its square root, which is kept as the variance it is the root of.
Variance(sum, sumsq, window) ==
    FDiv(FSub(sumsq, FDiv(FMul(sum, sum), Num(window))), Num(window - 1))

RollingVariance(xs, squares, window) ==
    Series(LAMBDA i : IF i < window THEN NaN
                      ELSE Variance(SumRange(xs, i - window + 1, i),
                                    SumRange(squares, i - window + 1, i),
                                    window),
           Len(xs))

rolling_var(xs, window) ==
    RollingVariance(xs, Series(LAMBDA i : FMul(xs[i], xs[i]), Len(xs)), window)

\* The float64 value  a + b * sqrt(r)  for r >= 0, kept by its three parts.
Surd(a, b, r) == [a |-> a, b |-> b, r |-> r]

SurdIsNa(s) == isna(s.a) \/ isna(s.b) \/ isna(s.r)

\* The sign of a + b * sqrt(r): the two terms are compared by their squares
\* when their signs differ.
SignBySquares(sa, sb, a2, b2r) ==
    IF FGt(a2, b2r) THEN sa ELSE IF FLt(a2, b2r) THEN sb ELSE 0

SignOfTerms(s, sa, sb) ==
    IF sb = 0 THEN sa
    ELSE IF sa = 0 \/ sa = sb THEN sb
    ELSE SignBySquares(sa, sb, FMul(s.a, s.a), FMul(FMul(s.b, s.b), s.r))

SurdSign(s) ==
    SignOfTerms(s, Sign(s.a), IF Sign(s.r) = 0 THEN 0 ELSE Sign(s.b))

\* x >= s and x <= s for a float64 x and a value s = a + b * sqrt(r);
\* false when either is NaN.
GeSurd(x, s) ==
    ~isna(x) /\ ~SurdIsNa(s) /\ SurdSign(Surd(FSub(x, s.a), FNeg(s.b), s.r)) >= 0

LeSurd(x, s) ==
    ~isna(x) /\ ~SurdIsNa(s) /\ SurdSign(Surd(FSub(x, s.a), FNeg(s.b), s.r)) <= 0

----------------------------------------------------------------------------
(***************************************************************************)
(* The label sets the indicator methods can produce.                       *)
(***************************************************************************)
RsiSignals == {"Neutral", "Overbought", "Oversold"}
MacdCrosses == {"Hold", "Buy", "Sell"}
BbSignals == {"Neutral", "Overbought", "Oversold"}
TrendLabels ==
    {"Strong Uptrend", "Uptrend", "Strong Downtrend", "Downtrend", "Sideways"}
VolumeTrends == {"Increasing", "Decreasing"}
Actions == {"Strong Buy", "Buy", "Hold", "Sell", "Strong Sell"}

(***************************************************************************)
(* _generate_recommendation, first half: the two counters.  Each field is  *)
(* a step of the code, applied to the counters left by the step before.    *)
(***************************************************************************)
SignalCountsAnyVolume(r) ==
    LET rsi == IF r.rsi.signal = "Oversold" THEN [buy |-> 2, sell |-> 0]
               ELSE IF r.rsi.signal = "Overbought" THEN [buy |-> 0, sell |-> 2]
               ELSE [buy |-> 0, sell |-> 0]
        macd == IF r.macd.signal = "Buy"
                    THEN [rsi EXCEPT !.buy = @ + 2]
                ELSE IF r.macd.signal = "Sell"
                    THEN [rsi EXCEPT !.sell = @ + 2]
                ELSE rsi
        bb == IF r.bollinger_bands.signal = "Oversold"
                  THEN [macd EXCEPT !.buy = @ + 1]
              ELSE IF r.bollinger_bands.signal = "Overbought"
                  THEN [macd EXCEPT !.sell = @ + 1]
              ELSE macd
        trend == IF StrIn("Uptrend", r.trend)
                     THEN [bb EXCEPT !.buy = @ + 1]
                 ELSE IF StrIn("Downtrend", r.trend)
                     THEN [bb EXCEPT !.sell = @ + 1]
                 ELSE bb
    IN  IF r.volume.volume_trend = "Increasing"
            THEN [trend EXCEPT !.buy = @ + 1]
        ELSE trend

SignalCounts(r) ==
    LET rsi == IF r.rsi.signal = "Oversold" THEN [buy |-> 2, sell |-> 0]
               ELSE IF r.rsi.signal = "Overbought" THEN [buy |-> 0, sell |-> 2]
               ELSE [buy |-> 0, sell |-> 0]
        macd == IF r.macd.signal = "Buy"
                    THEN [rsi EXCEPT !.buy = @ + 2]
                ELSE IF r.macd.signal = "Sell"
                    THEN [rsi EXCEPT !.sell = @ + 2]
                ELSE rsi
        bb == IF r.bollinger_bands.signal = "Oversold"
                  THEN [macd EXCEPT !.buy = @ + 1]
              ELSE IF r.bollinger_bands.signal = "Overbought"
                  THEN [macd EXCEPT !.sell = @ + 1]
              ELSE macd
        trend == IF StrIn("Uptrend", r.trend)
                     THEN [bb EXCEPT !.buy = @ + 1]
                 ELSE IF StrIn("Downtrend", r.trend)
                     THEN [bb EXCEPT !.sell = @ + 1]
                 ELSE bb
    IN  IF r.volume.volume_trend = "Increasing" /\ trend.buy > trend.sell
            THEN [trend EXCEPT !.buy = @ + 1]
        ELSE trend

(***************************************************************************)
(* _generate_recommendation, second half: the first matching rule gives    *)
(* the returned dict.  The f-strings are built piece by piece.             *)
(***************************************************************************)
RecommendationUncapped(buy_signals, sell_signals) ==
    IF buy_signals > sell_signals + 2 THEN
        [action |-> "Strong Buy", confidence |-> buy_signals * 15,
         reason |-> "Multiple bullish signals detected"]
    ELSE IF buy_signals > sell_signals THEN
        [action |-> "Buy", confidence |-> buy_signals * 12,
         reason |-> "Bullish indicators outweigh bearish"]
    ELSE IF sell_signals > buy_signals + 2 THEN
        [action |-> "Strong Sell", confidence |-> sell_signals * 15,
         reason |-> "Multiple bearish signals detected"]
    ELSE IF sell_signals > buy_signals THEN
        [action |-> "Sell", confidence |-> sell_signals * 12,
         reason |-> "Bearish indicators outweigh bullish"]
    ELSE
        [action |-> "Hold", confidence |-> 50,
         reason |-> "Mixed signals - Wait for clearer trend"]

RecommendationWeakFirst(buy_signals, sell_signals) ==
    IF buy_signals > sell_signals THEN
        [action |-> "Buy", confidence |-> Min(80, buy_signals * 12),
         reason |-> "Bullish indicators outweigh bearish"]
    ELSE IF buy_signals > sell_signals + 2 THEN
        [action |-> "Strong Buy", confidence |-> Min(95, buy_signals * 15),
         reason |-> "Multiple bullish signals detected"]
    ELSE IF sell_signals > buy_signals THEN
        [action |-> "Sell", confidence |-> Min(80, sell_signals * 12),
         reason |-> "Bearish indicators outweigh bullish"]
    ELSE IF sell_signals > buy_signals + 2 THEN
        [action |-> "Strong Sell", confidence |-> Min(95, sell_signals * 15),
         reason |-> "Multiple bearish signals detected"]
    ELSE
        [action |-> "Hold", confidence |-> 50,
         reason |-> "Mixed signals - Wait for clearer trend"]

RecommendationBuyTwice(buy_signals, sell_signals) ==
    IF buy_signals > sell_signals + 2 THEN
        [action |-> "Strong Buy", confidence |-> Min(95, buy_signals * 15),
         reason |-> "Multiple bullish signals detected ("
                    \o ToString(buy_signals) \o " buy vs "
                    \o ToString(buy_signals) \o " sell signals)"]
    ELSE IF buy_signals > sell_signals THEN
        [action |-> "Buy", confidence |-> Min(80, buy_signals * 12),
         reason |-> "Bullish indicators outweigh bearish ("
                    \o ToString(buy_signals) \o " buy vs "
                    \o ToString(buy_signals) \o " sell signals)"]
    ELSE IF sell_signals > buy_signals + 2 THEN
        [action |-> "Strong Sell", confidence |-> Min(95, sell_signals * 15),
         reason |-> "Multiple bearish signals detected ("
                    \o ToString(sell_signals) \o " sell vs "
                    \o ToString(sell_signals) \o " buy signals)"]
    ELSE IF sell_signals > buy_signals THEN
        [action |-> "Sell", confidence |-> Min(80, sell_signals * 12),
         reason |-> "Bearish indicators outweigh bullish ("
                    \o ToString(sell_signals) \o " sell vs "
                    \o ToString(sell_signals) \o " buy signals)"]
    ELSE
        [action |-> "Hold", confidence |-> 50,
         reason |-> "Mixed signals - Wait for clearer trend"]

\* The rules with the strong actions weighted like the weak ones.
RecommendationStrongByTwelve(buy_signals, sell_signals) ==
    IF buy_signals > sell_signals + 2 THEN
        [action |-> "Strong Buy", confidence |-> Min(95, buy_signals * 12),
         reason |-> "Multiple bullish signals detected ("
                    \o ToString(buy_signals) \o " buy vs "
                    \o ToString(sell_signals) \o " sell signals)"]
    ELSE IF buy_signals > sell_signals THEN
        [action |-> "Buy", confidence |-> Min(80, buy_signals * 12),
         reason |-> "Bullish indicators outweigh bearish ("
                    \o ToString(buy_signals) \o " buy vs "
                    \o ToString(sell_signals) \o " sell signals)"]
    ELSE IF sell_signals > buy_signals + 2 THEN
        [action |-> "Strong Sell", confidence |-> Min(95, sell_signals * 12),
         reason |-> "Multiple bearish signals detected ("
                    \o ToString(sell_signals) \o " sell vs "
                    \o ToString(buy_signals) \o " buy signals)"]
    ELSE IF sell_signals > buy_signals THEN
        [action |-> "Sell", confidence |-> Min(80, sell_signals * 12),
         reason |-> "Bearish indicators outweigh bullish ("
                    \o ToString(sell_signals) \o " sell vs "
                    \o ToString(buy_signals) \o " buy signals)"]
    ELSE
        [action |-> "Hold", confidence |-> 50,
         reason |-> "Mixed signals - Wait for clearer trend"]

Recommendation(buy_signals, sell_signals) ==
    IF buy_signals > sell_signals + 2 THEN
        [action |-> "Strong Buy", confidence |-> Min(95, buy_signals * 15),
         reason |-> "Multiple bullish signals detected ("
                    \o ToString(buy_signals) \o " buy vs "
                    \o ToString(sell_signals) \o " sell signals)"]
    ELSE IF buy_signals > sell_signals THEN
        [action |-> "Buy", confidence |-> Min(80, buy_signals * 12),
         reason |-> "Bullish indicators outweigh bearish ("
                    \o ToString(buy_signals) \o " buy vs "
                    \o ToString(sell_signals) \o " sell signals)"]
    ELSE IF sell_signals > buy_signals + 2 THEN
        [action |-> "Strong Sell", confidence |-> Min(95, sell_signals * 15),
         reason |-> "Multiple bearish signals detected ("
                    \o ToString(sell_signals) \o " sell vs "
                    \o ToString(buy_signals) \o " buy signals)"]
    ELSE IF sell_signals > buy_signals THEN
        [action |-> "Sell", confidence |-> Min(80, sell_signals * 12),
         reason |-> "Bearish indicators outweigh bullish ("
                    \o ToString(sell_signals) \o " sell vs "
                    \o ToString(buy_signals) \o " buy signals)"]
    ELSE
        [action |-> "Hold", confidence |-> 50,
         reason |-> "Mixed signals - Wait for clearer trend"]

_generate_recommendation(r) ==
    LET c == SignalCounts(r)
    IN  Recommendation(c.buy, c.sell)

----------------------------------------------------------------------------
(***************************************************************************)
(* The TechnicalIndicators object.  heap.stock_data is the frame the       *)
(* caller passes in, heap.copy the frame made for the object; self_data    *)
(* names the one self.data refers to, and every column assignment goes to  *)
(* that object.                                                            *)
(***************************************************************************)
Timestamp(day) == [ty |-> "Timestamp", day |-> day]

\* pd.to_datetime of one Date: a string is parsed, a Timestamp is kept.
to_datetime(date) == Timestamp(date.day)

DataCopyAliased(h) == [heap |-> h, ref |-> "stock_data"]

\* data.copy(): a new object with the same contents.
DataCopy(h) == [heap |-> [h EXCEPT !.copy = h.stock_data], ref |-> "copy"]

SortValuesDiscarded(frame) == frame

\* sort_values('Date').reset_index(drop=True): a new frame with the rows in
\* date order (dates are distinct), derived columns permuted alike.
sort_values(frame) ==
    LET n == len(frame)
        rank(i) == Cardinality({j \in 1..n :
                       frame.rows[j].Date.day < frame.rows[i].Date.day}) + 1
        at(k) == CHOOSE i \in 1..n : rank(i) = k
    IN  [rows |-> [k \in 1..n |-> frame.rows[at(k)]],
         cols |-> [c \in DOMAIN frame.cols |->
                      [k \in 1..n |-> frame.cols[c][at(k)]]]]

\* __init__(data): the heap afterwards; self.data is then heap.copy.
__init__(h) ==
    LET c == DataCopy(h)
        dated == [c.heap EXCEPT ![c.ref].rows =
                     [i \in 1..Len(@) |->
                         [@[i] EXCEPT !.Date = to_datetime(@)]]]
    IN  [dated EXCEPT !.copy = sort_values(dated[c.ref])]

\* The state before any object exists.
NoHeap == [stock_data |-> None, copy |-> None]
NoCall == [op |-> "none"]

\* A bar that is one price all day, with unit volume.
FlatBar(day, price) ==
    [Date |-> Timestamp(day), Open |-> price, High |-> price, Low |-> price,
     Close |-> price, Volume |-> 1]

\* The frame of daily flat bars with the given closes.
FrameOfCloses(closes) ==
    Frame([i \in 1..Len(closes) |-> FlatBar(i, closes[i])])

\* All sequences over S of length 1..n.
SeqsUpTo(S, n) == UNION {[1..k -> S] : k \in 1..n}

----------------------------------------------------------------------------
(***************************************************************************)
(* calculate_rsi(period): the frame with the columns RSI and RSI_Signal    *)
(* set.  The returned series is the RSI column.                            *)
(***************************************************************************)
Gains(delta) ==
    Series(LAMBDA i : IF FGt(delta[i], Num(0)) THEN delta[i] ELSE Num(0),
           Len(delta))

Losses(delta) ==
    Series(LAMBDA i : FNeg(IF FLt(delta[i], Num(0)) THEN delta[i] ELSE Num(0)),
           Len(delta))

\* The RSI with a zero average loss special-cased as missing.
RsiOfZeroLossMissing(gain, loss) ==
    Series(LAMBDA i : IF loss[i] = Num(0) THEN NaN
                      ELSE FSub(Num(100),
                                FDiv(Num(100),
                                     FAdd(Num(1), FDiv(gain[i], loss[i])))),
           Len(gain))

\* rs = gain / loss;  rsi = 100 - (100 / (1 + rs))
RsiOf(gain, loss) ==
    Series(LAMBDA i : FSub(Num(100),
                           FDiv(Num(100),
                                FAdd(Num(1), FDiv(gain[i], loss[i])))),
           Len(gain))

RsiOfDelta(delta, period) ==
    RsiOf(rolling_mean(Gains(delta), period),
          rolling_mean(Losses(delta), period))

RsiSeries(frame, period) == RsiOfDelta(diff(Close(frame)), period)

RsiSignal(rsi) ==
    Series(LAMBDA i : IF FLt(rsi[i], Num(30)) THEN "Oversold"
                      ELSE IF FGt(rsi[i], Num(70)) THEN "Overbought"
                      ELSE "Neutral",
           Len(rsi))

calculate_rsi(frame, period) ==
    With(RsiSeries(frame, period), LAMBDA rsi :
        SetCols(frame, [RSI |-> rsi, RSI_Signal |-> RsiSignal(rsi)]))

----------------------------------------------------------------------------
(***************************************************************************)
(* calculate_macd(fast, slow, signal).  The three exponential averages     *)
(* are computed exactly: with dens = <<fast+1, slow+1, signal+1>> and      *)
(* D their product, the value of every series at row i (counted from 0)    *)
(* is kept as the integer  value * D^i,  so that the divisions by span+1   *)
(* of the recursion are exact.                                             *)
(***************************************************************************)
\* x * D
MulBase(x, dens) == BigMul(BigMul(BigMul(x, dens[1]), dens[2]), dens[3])

\* 1, D, D^2, ..., D^(n-1)
Powers(n, dens) ==
    Iterate(LAMBDA acc, i : IF i = 1 THEN BigOfInt(1)
                            ELSE MulBase(acc[i - 1], dens),
            <<>>, 1, n)

\* the series of the closes, each scaled to its row: close[i] * D^i
ScaledBy(closes, pow) ==
    Series(LAMBDA i : BigMul(pow[i], closes[i]), Len(closes))

ScaledCloses(closes, dens) == ScaledBy(closes, Powers(Len(closes), dens))

\* Series.ewm(span=span, adjust=False).mean() on a scaled series:
\*   y[0] = x[0],  y[i] = alpha * x[i] + (1 - alpha) * y[i-1],
\* with alpha = 2 / (span + 1).
ewm_mean(xs, span, dens) ==
    Iterate(LAMBDA acc, i :
                IF i = 1 THEN xs[1]
                ELSE BigDiv(BigAdd(BigMul(xs[i], 2),
                                   BigMul(MulBase(acc[i - 1], dens), span - 1)),
                            span + 1),
            <<>>, 1, Len(xs))

SeriesSub(xs, ys) == Series(LAMBDA i : BigSub(xs[i], ys[i]), Len(xs))

\* the three returned series, from the two averages of the scaled closes
MacdOfAverages(ema_fast, ema_slow, signal, dens) ==
    With(SeriesSub(ema_fast, ema_slow), LAMBDA macd_line :
    With(ewm_mean(macd_line, signal, dens), LAMBDA signal_line :
        [macd_line |-> macd_line,
         signal_line |-> signal_line,
         histogram |-> SeriesSub(macd_line, signal_line)]))

MacdOfScaled(x, fast, slow, signal, dens) ==
    MacdOfAverages(ewm_mean(x, fast, dens), ewm_mean(x, slow, dens),
                   signal, dens)

Dens(fast, slow, signal) == <<fast + 1, slow + 1, signal + 1>>

MacdLinesSwapped(closes, fast, slow, signal) ==
    MacdOfScaled(ScaledCloses(closes, Dens(fast, slow, signal)),
                 slow, fast, signal, Dens(fast, slow, signal))

MacdLines(closes, fast, slow, signal) ==
    MacdOfScaled(ScaledCloses(closes, Dens(fast, slow, signal)),
                 fast, slow, signal, Dens(fast, slow, signal))

\* Labels by the side alone, whatever the bar before.
CrossOfSidesEveryBar(side) ==
    Series(LAMBDA i : IF i = 1 THEN "Hold"
                      ELSE IF side[i] > 0 THEN "Buy"
                      ELSE IF side[i] < 0 THEN "Sell"
                      ELSE "Hold",
           Len(side))

\* The crossover loop reading a line that touches the other as not crossed.
CrossOfSidesFromBeyond(side) ==
    Series(LAMBDA i : IF i = 1 THEN "Hold"
                      ELSE IF side[i] > 0 /\ side[i - 1] < 0 THEN "Buy"
                      ELSE IF side[i] < 0 /\ side[i - 1] > 0 THEN "Sell"
                      ELSE "Hold",
           Len(side))

\* The crossover loop: row 0 keeps 'Hold'; row i compares rows i-1 and i.
\* Both values of a row carry the same scale, so their order is that of
\* the scaled integers: side[i] is the sign of macd_line - signal_line.
CrossOfSides(side) ==
    Series(LAMBDA i : IF i = 1 THEN "Hold"
                      ELSE IF side[i] > 0 /\ side[i - 1] <= 0 THEN "Buy"
                      ELSE IF side[i] < 0 /\ side[i - 1] >= 0 THEN "Sell"
                      ELSE "Hold",
           Len(side))

MacdCross(macd_line, signal_line) ==
    CrossOfSides(Series(LAMBDA i : BigCmp(macd_line[i], signal_line[i]),
                        Len(macd_line)))

calculate_macd(frame, fast, slow, signal) ==
    With(MacdLines(Close(frame), fast, slow, signal), LAMBDA l :
        SetCols(frame, [MACD |-> l.macd_line,
                        MACD_Signal |-> l.signal_line,
                        MACD_Histogram |-> l.histogram,
                        MACD_Cross |-> MacdCross(l.macd_line, l.signal_line)]))

----------------------------------------------------------------------------
(***************************************************************************)
(* calculate_bollinger_bands(period, std_dev): the bands are the rolling   *)
(* mean plus and minus std_dev rolling standard deviations.  The signal    *)
(* column is assigned 'Neutral', then 'Overbought', then 'Oversold', so    *)
(* a row meeting both conditions ends as 'Oversold'.                       *)
(***************************************************************************)
BandsOfSwapped(sma, var, std_dev) ==
    [upper_band |-> Series(LAMBDA i : Surd(sma[i], Num(-std_dev), var[i]),
                           Len(sma)),
     sma |-> sma,
     lower_band |-> Series(LAMBDA i : Surd(sma[i], Num(std_dev), var[i]),
                           Len(sma)),
     width |-> Series(LAMBDA i : Surd(FSub(sma[i], sma[i]), Num(-2 * std_dev),
                                      var[i]),
                      Len(sma))]

\* upper_band = sma + (std_dev * std), lower_band = sma - (std_dev * std) and
\* upper_band - lower_band, std being the root of the rolling variance.
BandsOf(sma, var, std_dev) ==
    [upper_band |-> Series(LAMBDA i : Surd(sma[i], Num(std_dev), var[i]),
                           Len(sma)),
     sma |-> sma,
     lower_band |-> Series(LAMBDA i : Surd(sma[i], Num(-std_dev), var[i]),
                           Len(sma)),
     width |-> Series(LAMBDA i : Surd(FSub(sma[i], sma[i]), Num(2 * std_dev),
                                      var[i]),
                      Len(sma))]

BollingerBands(closes, period, std_dev) ==
    BandsOf(rolling_mean(closes, period), rolling_var(closes, period), std_dev)

BbSignal(closes, upper_band, lower_band) ==
    Series(LAMBDA i : IF LeSurd(closes[i], lower_band[i]) THEN "Oversold"
                      ELSE IF GeSurd(closes[i], upper_band[i]) THEN "Overbought"
                      ELSE "Neutral",
           Len(closes))

BbColumnsSignalOfRsi(closes, b) ==
    [BB_Middle |-> b.sma,
     BB_Upper |-> b.upper_band,
     BB_Lower |-> b.lower_band,
     BB_Width |-> b.width,
     BB_Signal |-> BbSignal(closes, b.upper_band, b.lower_band),
     RSI_Signal |-> BbSignal(closes, b.upper_band, b.lower_band)]

BbColumns(closes, b) ==
    [BB_Middle |-> b.sma,
     BB_Upper |-> b.upper_band,
     BB_Lower |-> b.lower_band,
     BB_Width |-> b.width,
     BB_Signal |-> BbSignal(closes, b.upper_band, b.lower_band)]

calculate_bollinger_bands(frame, period, std_dev) ==
    With(Floats(Close(frame)), LAMBDA closes :
        SetCols(frame,
                BbColumns(closes, BollingerBands(closes, period, std_dev))))

----------------------------------------------------------------------------
(***************************************************************************)
(* find_support_resistance(order).  scipy's argrelextrema compares each    *)
(* row with the rows up to `order` places to either side, an index beyond  *)
(* the ends being clipped to the end row (mode='clip').                    *)
(***************************************************************************)
argrelextrema(data, IsBeyond(_, _), order) ==
    {i \in 1..Len(data) : \A shift \in 1..order :
        /\ IsBeyond(data[i], data[Min(i + shift, Len(data))])
        /\ IsBeyond(data[i], data[Max(i - shift, 1)])}

\* data.iloc[indices][column].values: the values at the rows found, in row
\* order, as float64.
LevelsAt(data, rows) ==
    Series(LAMBDA k :
               Num(data[CHOOSE i \in rows :
                            Cardinality({j \in rows : j < i}) = k - 1]),
           Cardinality(rows))

\* Merging two ascending lists: after k turns, the k-th smallest value and
\* the places reached in both lists.
MergeStep(a, b, at) ==
    IF at.j > Len(b) \/ (at.i <= Len(a) /\ FLe(a[at.i], b[at.j]))
        THEN [v |-> a[at.i], i |-> at.i + 1, j |-> at.j]
    ELSE [v |-> b[at.j], i |-> at.i, j |-> at.j + 1]

Merged(a, b) ==
    With(Iterate(LAMBDA acc, k :
                     MergeStep(a, b, IF k = 1 THEN [i |-> 1, j |-> 1]
                                     ELSE acc[k - 1]),
                 <<>>, 1, Len(a) + Len(b)),
         LAMBDA steps : Series(LAMBDA k : steps[k].v, Len(steps)))

\* sorted(levels): the levels in ascending order.
RECURSIVE sorted(_)
sorted(levels) ==
    IF Len(levels) <= 1 THEN levels
    ELSE Merged(sorted(SubSeq(levels, 1, Len(levels) \div 2)),
                sorted(SubSeq(levels, Len(levels) \div 2 + 1, Len(levels))))

\* np.mean(current_cluster)
ClusterMean(c) == FDiv(c.sum, Num(c.count))

ClusterStepFromFirst(cur, mean, level, tolerance) ==
    IF FLt(FDiv(FAbs(FSub(level, cur.first)), cur.first), tolerance)
        THEN [cur EXCEPT !.sum = FAdd(@, level), !.count = @ + 1]
    ELSE [clusters |-> Append(cur.clusters, mean), first |-> level,
          sum |-> level, count |-> 1]

\* The turn of the loop with a level at the tolerance itself joining.
ClusterStepWithinOrAt(cur, mean, level, tolerance) ==
    IF FLe(FDiv(FAbs(FSub(level, mean)), mean), tolerance)
        THEN [cur EXCEPT !.sum = FAdd(@, level), !.count = @ + 1]
    ELSE [clusters |-> Append(cur.clusters, mean), first |-> level,
          sum |-> level, count |-> 1]

\* One turn of the loop of cluster_levels, on the cluster being filled: the
\* level joins it when within the tolerance of its mean, else closes it.
ClusterStep(cur, mean, level, tolerance) ==
    IF FLt(FDiv(FAbs(FSub(level, mean)), mean), tolerance)
        THEN [cur EXCEPT !.sum = FAdd(@, level), !.count = @ + 1]
    ELSE [clusters |-> Append(cur.clusters, mean), first |-> level,
          sum |-> level, count |-> 1]

\* the last turn's clusters.append(np.mean(current_cluster))
ClustersOf(last) == Append(last.clusters, ClusterMean(last))

\* The loop over the sorted levels: after each level, the clusters closed so
\* far and the first level, the sum and the size of the current one.
ClustersOfSorted(levels, tolerance) ==
    ClustersOf(Last(Iterate(
        LAMBDA acc, i :
            IF i = 1
                THEN [clusters |-> <<>>, first |-> levels[1],
                      sum |-> levels[1], count |-> 1]
            ELSE ClusterStep(acc[i - 1], ClusterMean(acc[i - 1]),
                             levels[i], tolerance),
        <<>>, 1, Len(levels))))

cluster_levels(levels, tolerance) ==
    IF Len(levels) = 0 THEN <<>>
    ELSE ClustersOfSorted(sorted(levels), tolerance)

\* levels[-5:]
LastN(xs, k) == SubSeq(xs, Max(1, Len(xs) - k + 1), Len(xs))

\* max(support_below) if support_below else None, and its mirror image
MaxOf(levels, rows) ==
    IF rows = {} THEN None
    ELSE levels[CHOOSE i \in rows : \A j \in rows : FGe(levels[i], levels[j])]

MinOf(levels, rows) ==
    IF rows = {} THEN None
    ELSE levels[CHOOSE i \in rows : \A j \in rows : FLe(levels[i], levels[j])]

NearestSupportOrEqual(support_levels, current_price) ==
    MaxOf(support_levels, {i \in 1..Len(support_levels) :
                              FLe(support_levels[i], current_price)})

nearest_support(support_levels, current_price) ==
    MaxOf(support_levels, {i \in 1..Len(support_levels) :
                              FLt(support_levels[i], current_price)})

nearest_resistance(resistance_levels, current_price) ==
    MinOf(resistance_levels, {i \in 1..Len(resistance_levels) :
                                 FGt(resistance_levels[i], current_price)})

\* the clustered levels of the local minima of the lows
SupportLevels(lows, order) ==
    cluster_levels(LevelsAt(lows, argrelextrema(lows, LAMBDA x, y : x <= y,
                                                 order)),
                   Rat(2, 100))

\* the clustered levels of the local maxima of the highs
ResistanceLevels(highs, order) ==
    cluster_levels(LevelsAt(highs, argrelextrema(highs, LAMBDA x, y : x >= y,
                                                  order)),
                   Rat(2, 100))

\* The returned dict listing the first five levels of each side.
SupportResistanceFirstFive(support_levels, resistance_levels, current_price) ==
    [support_levels |-> SubSeq(support_levels, 1, Min(5, Len(support_levels))),
     resistance_levels |->
         SubSeq(resistance_levels, 1, Min(5, Len(resistance_levels))),
     nearest_support |-> nearest_support(support_levels, current_price),
     nearest_resistance |-> nearest_resistance(resistance_levels, current_price),
     current_price |-> current_price]

SupportResistance(support_levels, resistance_levels, current_price) ==
    [support_levels |-> LastN(support_levels, 5),
     resistance_levels |-> LastN(resistance_levels, 5),
     nearest_support |-> nearest_support(support_levels, current_price),
     nearest_resistance |-> nearest_resistance(resistance_levels, current_price),
     current_price |-> current_price]

\* The returned dict, for a frame with at least one row.
find_support_resistance(frame, order) ==
    SupportResistance(SupportLevels(Column(frame, "Low"), order),
                      ResistanceLevels(Column(frame, "High"), order),
                      Num(Last(Close(frame))))

----------------------------------------------------------------------------
(***************************************************************************)
(* analyze_volume(): the frame with the columns Volume_MA, Volume_Spike    *)
(* and OBV set, and the returned dict (for a frame with at least one row). *)
(***************************************************************************)
\* series.iloc[a:b].mean() for the rows lo..hi; NaN when there is none
SliceMean(xs, lo, hi) == FDiv(SumRange(xs, lo, hi), Num(Max(hi - lo + 1, 0)))

\* The total starting at the first bar's volume.
OnBalanceVolumeFromFirst(closes, volumes) ==
    Iterate(LAMBDA obv, i :
                IF i = 1 THEN volumes[1]
                ELSE IF closes[i] > closes[i - 1] THEN obv[i - 1] + volumes[i]
                ELSE IF closes[i] < closes[i - 1] THEN obv[i - 1] - volumes[i]
                ELSE obv[i - 1],
            <<>>, 1, Len(closes))

OnBalanceVolume(closes, volumes) ==
    Iterate(LAMBDA obv, i :
                IF i = 1 THEN 0
                ELSE IF closes[i] > closes[i - 1] THEN obv[i - 1] + volumes[i]
                ELSE IF closes[i] < closes[i - 1] THEN obv[i - 1] - volumes[i]
                ELSE obv[i - 1],
            <<>>, 1, Len(closes))

VolumeSpikes(volumes, Volume_MA) ==
    Series(LAMBDA i : FGt(volumes[i], FMul(Num(2), Volume_MA[i])), Len(volumes))

VolumeColumnsOf(frame, volumes, Volume_MA) ==
    [Volume_MA |-> Volume_MA,
     Volume_Spike |-> VolumeSpikes(volumes, Volume_MA),
     OBV |-> OnBalanceVolume(Close(frame), Column(frame, "Volume"))]

VolumeColumns(frame, volumes) ==
    VolumeColumnsOf(frame, volumes, rolling_mean(volumes, 20))

VolumeTrendAtLeast(recent_volume, older_volume) ==
    IF FGe(recent_volume, older_volume) THEN "Increasing" ELSE "Decreasing"

VolumeTrend(recent_volume, older_volume) ==
    IF FGt(recent_volume, older_volume) THEN "Increasing" ELSE "Decreasing"

VolumeAnalysis(frame, volumes, cols, n) ==
    [frame |-> SetCols(frame, cols),
     returned |->
         [current_volume |-> Last(Column(frame, "Volume")),
          avg_volume |-> Last(cols.Volume_MA),
          volume_trend |->
              VolumeTrend(SliceMean(volumes, Max(n - 20, 0) + 1, n),
                          SliceMean(volumes, Max(n - 40, 0) + 1,
                                    Max(n - 20, 0))),
          obv |-> Last(cols.OBV),
          recent_spikes |->
              Cardinality({i \in (Max(n - 10, 0) + 1)..n :
                              cols.Volume_Spike[i]})]]

analyze_volume(frame) ==
    With(Floats(Column(frame, "Volume")), LAMBDA volumes :
        VolumeAnalysis(frame, volumes, VolumeColumns(frame, volumes),
                       len(frame)))

----------------------------------------------------------------------------
(***************************************************************************)
(* detect_candlestick_patterns(): the checks of one row, each appending    *)
(* its pattern when it holds, for the rows from the third on; the last ten *)
(* patterns are returned.                                                  *)
(***************************************************************************)
Pattern(date, pattern, type, description) ==
    [date |-> date, pattern |-> pattern, type |-> type,
     description |-> description]

\* body = abs(close - open_price), and the shadows above and below it
Body(row) == Abs(row.Close - row.Open)
UpperShadow(row) == row.High - Max(row.Open, row.Close)
LowerShadow(row) == Min(row.Open, row.Close) - row.Low

IsDojiWithBody(row) ==
    /\ Body(row) > 0
    /\ row.High - row.Low > 0
    /\ FLt(FDiv(Num(Body(row)), Num(row.High - row.Low)), Rat(1, 10))

\* total_range > 0 and body / total_range < 0.1
IsDoji(row) ==
    /\ row.High - row.Low > 0
    /\ FLt(FDiv(Num(Body(row)), Num(row.High - row.Low)), Rat(1, 10))

IsHammer(row) ==
    /\ Body(row) > 0 /\ LowerShadow(row) > 2 * Body(row)
    /\ UpperShadow(row) < Body(row) /\ row.Close > row.Open

IsShootingStar(row) ==
    /\ Body(row) > 0 /\ UpperShadow(row) > 2 * Body(row)
    /\ LowerShadow(row) < Body(row) /\ row.Close < row.Open

IsBullishEngulfing(row, prev) ==
    /\ row.Close > row.Open /\ prev.Close < prev.Open
    /\ row.Close > prev.Open /\ row.Open < prev.Close

IsBearishEngulfingCopied(row, prev) ==
    /\ row.Close > row.Open /\ prev.Close < prev.Open
    /\ row.Close > prev.Open /\ row.Open < prev.Close

IsBearishEngulfing(row, prev) ==
    /\ row.Close < row.Open /\ prev.Close > prev.Open
    /\ row.Close < prev.Open /\ row.Open > prev.Close

\* The five checks of one turn of the loop, each appending its pattern.
PatternsOf(row, prev) ==
    (IF IsDoji(row)
         THEN <<Pattern(row.Date, "Doji", "Neutral",
                        "Indecision in the market")>>
     ELSE <<>>)
    \o (IF IsHammer(row)
            THEN <<Pattern(row.Date, "Hammer", "Bullish",
                           "Potential bullish reversal")>>
        ELSE <<>>)
    \o (IF IsShootingStar(row)
            THEN <<Pattern(row.Date, "Shooting Star", "Bearish",
                           "Potential bearish reversal")>>
        ELSE <<>>)
    \o (IF IsBullishEngulfing(row, prev)
            THEN <<Pattern(row.Date, "Bullish Engulfing", "Bullish",
                           "Strong bullish reversal signal")>>
        ELSE <<>>)
    \o (IF IsBearishEngulfing(row, prev)
            THEN <<Pattern(row.Date, "Bearish Engulfing", "Bearish",
                           "Strong bearish reversal signal")>>
        ELSE <<>>)

PatternsAt(frame, i) == PatternsOf(frame.rows[i], frame.rows[i - 1])

AllPatternsFromSecondRow(frame) ==
    Concat(LAMBDA i : PatternsAt(frame, i), 2, len(frame))

\* patterns, when the loop has ended: for i in range(2, len(self.data)) looks
\* at the rows from the third on.
AllPatterns(frame) ==
    Concat(LAMBDA i : PatternsAt(frame, i), 3, len(frame))

KeepFirstTen(patterns) == SubSeq(patterns, 1, Min(Len(patterns), 10))

\* patterns[-10:]
KeepLastTen(patterns) == LastN(patterns, 10)

detect_candlestick_patterns(frame) == KeepLastTen(AllPatterns(frame))

----------------------------------------------------------------------------
(***************************************************************************)
(* The interpretation texts.                                               *)
(***************************************************************************)
\* The interpretation without the test for a missing value.
InterpretRsiUnguarded(rsi_value) ==
    IF FGt(rsi_value, Num(70)) THEN "Overbought - Consider selling"
    ELSE IF FLt(rsi_value, Num(30)) THEN "Oversold - Consider buying"
    ELSE IF FGt(rsi_value, Num(50)) THEN "Bullish momentum"
    ELSE "Bearish momentum"

_interpret_rsi(rsi_value) ==
    IF isna(rsi_value) THEN "Insufficient data"
    ELSE IF FGt(rsi_value, Num(70)) THEN "Overbought - Consider selling"
    ELSE IF FLt(rsi_value, Num(30)) THEN "Oversold - Consider buying"
    ELSE IF FGt(rsi_value, Num(50)) THEN "Bullish momentum"
    ELSE "Bearish momentum"

_interpret_macd(histogram) ==
    IF histogram.s > 0 THEN "Bullish momentum - MACD above signal"
    ELSE IF histogram.s < 0 THEN "Bearish momentum - MACD below signal"
    ELSE "Neutral"

\* f"{pct:.0f}" for pct = (price - lower) / (upper - lower) * 100, when price
\* lies strictly between the bands a - b*sqrt(r) and a + b*sqrt(r):
\* pct = 50 + 50 * (price - a) / (b * sqrt(r)), and the integer m printed
\* is the nearest one, the even one of two equally near.
NearestEven(near) ==
    ToString(CHOOSE m \in near : Cardinality(near) = 1 \/ m % 2 = 0)

FormatPct(price, upper) ==
    With(FMul(Num(50), FSub(price, upper.a)), LAMBDA off :
        NearestEven({m \in 0..100 :
            /\ SurdSign(Surd(off, FMul(Rat(101 - 2 * m, 2), upper.b),
                             upper.r)) >= 0
            /\ SurdSign(Surd(off, FMul(Rat(99 - 2 * m, 2), upper.b),
                             upper.r)) <= 0}))

_interpret_bb(price, upper, lower) ==
    IF GeSurd(price, upper) THEN "Price at upper band - Overbought condition"
    ELSE IF LeSurd(price, lower)
        THEN "Price at lower band - Oversold condition"
    ELSE "Price at "
         \o (IF SurdIsNa(upper) \/ SurdIsNa(lower) THEN "nan"
             ELSE FormatPct(price, upper))
         \o "% of band range"

----------------------------------------------------------------------------
(***************************************************************************)
(* calculate_all_indicators(): the frame with every derived column set,    *)
(* and the returned dict.  On a frame without rows the first three         *)
(* indicators set their (empty) columns and find_support_resistance then   *)
(* raises IndexError at  self.data['Close'].iloc[-1].                      *)
(***************************************************************************)
\* the value of a MACD series at the last row: an integer over D^(rows - 1)
MacdValue(series) == [num |-> Last(series), scale |-> Len(series) - 1]

TrendAgainstSma50(current_price, sma_20, sma_50) ==
    IF FGt(current_price, sma_50) /\ FGt(sma_20, sma_50) THEN "Strong Uptrend"
    ELSE IF FGt(current_price, sma_50) THEN "Uptrend"
    ELSE IF FLt(current_price, sma_50) /\ FLt(sma_20, sma_50)
        THEN "Strong Downtrend"
    ELSE IF FLt(current_price, sma_50) THEN "Downtrend"
    ELSE "Sideways"

FillNa(x) == IF isna(x) THEN Num(0) ELSE x

TrendMissingAsZero(current_price, sma_20, sma_50) ==
    IF /\ FGt(current_price, FillNa(sma_20))
       /\ FGt(FillNa(sma_20), FillNa(sma_50)) THEN "Strong Uptrend"
    ELSE IF FGt(current_price, FillNa(sma_20)) THEN "Uptrend"
    ELSE IF /\ FLt(current_price, FillNa(sma_20))
            /\ FLt(FillNa(sma_20), FillNa(sma_50)) THEN "Strong Downtrend"
    ELSE IF FLt(current_price, FillNa(sma_20)) THEN "Downtrend"
    ELSE "Sideways"

\* The trend: the first branch of the if/elif chain that matches.
Trend(current_price, sma_20, sma_50) ==
    IF FGt(current_price, sma_20) /\ FGt(sma_20, sma_50) THEN "Strong Uptrend"
    ELSE IF FGt(current_price, sma_20) THEN "Uptrend"
    ELSE IF FLt(current_price, sma_20) /\ FLt(sma_20, sma_50)
        THEN "Strong Downtrend"
    ELSE IF FLt(current_price, sma_20) THEN "Downtrend"
    ELSE "Sideways"

IndicatorColumns(frame) ==
    calculate_bollinger_bands(
        calculate_macd(calculate_rsi(frame, 14), 12, 26, 9), 20, 2)

\* the results dict before the recommendation is added
Compiled(data, current_price, sma_20, sma_50, rsi, support_resistance, volume_analysis, patterns) ==
    [current_price |-> current_price,
     trend |-> Trend(current_price, sma_20, sma_50),
     rsi |-> [value |-> IF ~isna(rsi) THEN rsi ELSE Num(0),
              signal |-> Last(data.cols.RSI_Signal),
              interpretation |-> _interpret_rsi(rsi)],
     macd |-> [macd_line |-> MacdValue(data.cols.MACD),
               signal_line |-> MacdValue(data.cols.MACD_Signal),
               histogram |-> MacdValue(data.cols.MACD_Histogram),
               signal |-> Last(data.cols.MACD_Cross),
               interpretation |->
                   _interpret_macd(Last(data.cols.MACD_Histogram))],
     bollinger_bands |->
         [upper |-> Last(data.cols.BB_Upper),
          middle |-> Last(data.cols.BB_Middle),
          lower |-> Last(data.cols.BB_Lower),
          width |-> Last(data.cols.BB_Width),
          signal |-> Last(data.cols.BB_Signal),
          interpretation |->
              _interpret_bb(current_price, Last(data.cols.BB_Upper),
                            Last(data.cols.BB_Lower))],
     support_resistance |-> support_resistance,
     volume |-> volume_analysis,
     patterns |-> patterns,
     sma_20 |-> sma_20,
     sma_50 |-> sma_50]

CompileResults(data, closes, support_resistance, volume_analysis, patterns) ==
    Compiled(data, Last(closes), Last(rolling_mean(closes, 20)),
             Last(rolling_mean(closes, 50)), Last(data.cols.RSI),
             support_resistance, volume_analysis, patterns)

\* results['recommendation'] = self._generate_recommendation(results)
WithRecommendation(compiled) ==
    [recommendation |-> _generate_recommendation(compiled)] @@ compiled

AllIndicators(indicated, volume) ==
    [frame |-> volume.frame,
     raised |-> "none",
     returned |-> WithRecommendation(
                      CompileResults(volume.frame,
                                     Floats(Close(volume.frame)),
                                     find_support_resistance(indicated, 5),
                                     volume.returned,
                                     detect_candlestick_patterns(volume.frame)))]

calculate_all_indicators(frame) ==
    With(IndicatorColumns(frame), LAMBDA indicated :
        IF len(frame) = 0 THEN [frame |-> indicated, raised |-> "IndexError"]
        ELSE AllIndicators(indicated, analyze_volume(indicated)))

----------------------------------------------------------------------------
(***************************************************************************)
(* calculate_rsi on its own: an object built on any short series of small  *)
(* closes, then calls of calculate_rsi with any small period.              *)
(***************************************************************************)
RsiMaxBars == 5
MaxClose == 3
RsiMaxPeriod == 3

InitRsi ==
    /\ \E closes \in SeqsUpTo(1..MaxClose, RsiMaxBars) :
           heap = __init__([stock_data |-> FrameOfCloses(closes),
                            copy |-> None])
    /\ self_data = "copy"
    /\ call = [op |-> "__init__"]
    /\ results = None

CalculateRsi(period) ==
    /\ self_data # "unset"
    /\ heap' = [heap EXCEPT ![self_data] = calculate_rsi(@, period)]
    /\ call' = [op |-> "calculate_rsi", period |-> period]
    /\ UNCHANGED <<results, self_data>>

NextRsi == \E period \in 1..RsiMaxPeriod : CalculateRsi(period)

SpecRsi == InitRsi /\ [][NextRsi]_vars

----------------------------------------------------------------------------
(***************************************************************************)
(* calculate_bollinger_bands on its own: short series of closes, small     *)
(* periods, and the multipliers 1 and 2.                                   *)
(***************************************************************************)
BbMaxBars == 4
BbMaxClose == 3
BbMaxPeriod == 3

\* std_dev: the default 2, and 1
Multipliers == {1, 2}

InitBb ==
    /\ \E closes \in SeqsUpTo(1..BbMaxClose, BbMaxBars) :
           heap = __init__([stock_data |-> FrameOfCloses(closes),
                            copy |-> None])
    /\ self_data = "copy"
    /\ call = [op |-> "__init__"]
    /\ results = None

CalculateBollingerBands(period, std_dev) ==
    /\ self_data # "unset"
    /\ heap' = [heap EXCEPT
                    ![self_data] = calculate_bollinger_bands(@, period, std_dev)]
    /\ call' = [op |-> "calculate_bollinger_bands",
                period |-> period, std_dev |-> std_dev]
    /\ UNCHANGED <<results, self_data>>

NextBb ==
    \E period \in 1..BbMaxPeriod, std_dev \in Multipliers :
        CalculateBollingerBands(period, std_dev)

SpecBb == InitBb /\ [][NextBb]_vars

----------------------------------------------------------------------------
(***************************************************************************)
(* calculate_macd on its own: an object built on any short series of small *)
(* closes, or on a ramp (a first rise, then unit rises), then calls of     *)
(* calculate_macd with the default spans or with small ones.               *)
(***************************************************************************)
MacdMaxBars == 4
MacdMaxClose == 4
MaxRamp == 18

\* closes 1, 1 + jump, 2 + jump, ..., k + jump
Ramp(jump, k) ==
    [i \in 1..(k + 2) |-> IF i = 1 THEN 1 ELSE jump + i - 1]

RampJumps == {1, 5, 50}

MacdCloses ==
    SeqsUpTo(1..MacdMaxClose, MacdMaxBars)
    \cup {Ramp(jump, k) : jump \in RampJumps, k \in 0..MaxRamp}

\* <<fast, slow, signal>>: the defaults of calculate_macd, and small spans
MacdSpans == {<<12, 26, 9>>, <<1, 3, 3>>, <<2, 4, 2>>}

InitMacd ==
    /\ \E closes \in MacdCloses :
           heap = __init__([stock_data |-> FrameOfCloses(closes),
                            copy |-> None])
    /\ self_data = "copy"
    /\ call = [op |-> "__init__"]
    /\ results = None

CalculateMacd(fast, slow, signal) ==
    /\ self_data # "unset"
    /\ heap' = [heap EXCEPT ![self_data] = calculate_macd(@, fast, slow, signal)]
    /\ call' = [op |-> "calculate_macd",
                fast |-> fast, slow |-> slow, signal |-> signal]
    /\ UNCHANGED <<results, self_data>>

NextMacd == \E spans \in MacdSpans : CalculateMacd(spans[1], spans[2], spans[3])

SpecMacd == InitMacd /\ [][NextMacd]_vars

----------------------------------------------------------------------------
(***************************************************************************)
(* The recommendation engine on its own: every combination of the five     *)
(* signals it reads, then one call.                                        *)
(***************************************************************************)
SignalDicts ==
    { [rsi |-> [signal |-> a], macd |-> [signal |-> b],
       bollinger_bands |-> [signal |-> c], trend |-> t,
       volume |-> [volume_trend |-> v], recommendation |-> None] :
        a \in RsiSignals, b \in MacdCrosses, c \in BbSignals,
        t \in TrendLabels, v \in VolumeTrends }

InitRec ==
    /\ results \in SignalDicts
    /\ heap = NoHeap
    /\ self_data = "unset"
    /\ call = NoCall

\* results['recommendation'] = self._generate_recommendation(results)
GenerateRecommendation ==
    /\ results.recommendation = None
    /\ results' = [results EXCEPT
                       !.recommendation = _generate_recommendation(results)]
    /\ call' = [op |-> "_generate_recommendation"]
    /\ UNCHANGED <<heap, self_data>>

NextRec == GenerateRecommendation

SpecRec == InitRec /\ [][NextRec]_vars

----------------------------------------------------------------------------
(***************************************************************************)
(* cluster_levels on its own: a list of candidate levels, clustered, and   *)
(* the clusters clustered again.  heap.levels is the list of candidates,   *)
(* heap.clustered what cluster_levels returned for it.                     *)
(***************************************************************************)
ClusterMaxLevels == 4

\* candidate levels around the 2% tolerance: 102 is 2% above 100
LevelValues == {100, 101, 102, 103, 104}

\* tolerance=0.02
Tolerance == Rat(2, 100)

CandidateLevels ==
    {<<>>} \cup {Floats(levels) : levels \in SeqsUpTo(LevelValues,
                                                       ClusterMaxLevels)}

InitCluster ==
    /\ heap \in {[levels |-> levels, clustered |-> None] :
                    levels \in CandidateLevels}
    /\ self_data = "unset"
    /\ results = None
    /\ call = NoCall

\* results = cluster_levels(heap[of]), on the candidates or on the clusters
\* returned for them
ClusterLevels(of) ==
    /\ of = "clustered" => call.op = "cluster_levels"
    /\ \E out \in {cluster_levels(heap[of], Tolerance)} :
           /\ results' = out
           /\ heap' = IF of = "levels" THEN [heap EXCEPT !.clustered = out]
                      ELSE heap
    /\ call' = [op |-> "cluster_levels", of |-> of]
    /\ UNCHANGED self_data

NextCluster == \E of \in {"levels", "clustered"} : ClusterLevels(of)

SpecCluster == InitCluster /\ [][NextCluster]_vars

----------------------------------------------------------------------------
(***************************************************************************)
(* detect_candlestick_patterns on its own, on series of candles of a few   *)
(* shapes: every short series of them, and long series that yield more     *)
(* than ten patterns.                                                      *)
(***************************************************************************)
PatternMaxBars == 4
MaxPairs == 5

\* <<open, close, high, low>>.  The falling bar 180 -> 160 and the rising
\* bar 156 -> 190 that engulfs it; a bar 192 -> 150 that engulfs that one; a
\* bar with a small body between long shadows, and one with no body; a bar
\* falling by 1; a rising bar that engulfs it above a long lower shadow; and
\* a falling bar that engulfs that one below a long upper shadow.
Falling == <<180, 160, 180, 160>>
Rising == <<156, 190, 190, 156>>
FallingWide == <<192, 150, 192, 150>>
SmallBody == <<200, 201, 216, 184>>
NoBody == <<170, 170, 175, 165>>
FallingByOne == <<171, 170, 171, 170>>
RisingOnShadow == <<169, 172, 172, 139>>
FallingUnderShadow == <<173, 168, 219, 168>>

Shapes ==
    {Falling, Rising, FallingWide, SmallBody, NoBody, FallingByOne,
     RisingOnShadow, FallingUnderShadow}

Candle(day, shape) ==
    [Date |-> Timestamp(day), Open |-> shape[1], Close |-> shape[2],
     High |-> shape[3], Low |-> shape[4], Volume |-> 1]

CandleFrame(shapes) ==
    Frame(Series(LAMBDA i : Candle(i, shapes[i]), Len(shapes)))

\* pairs of FallingByOne and RisingOnShadow, then one more candle
PairsThen(pairs, shape) ==
    [i \in 1..(2 * pairs + 1) |->
        IF i = 2 * pairs + 1 THEN shape
        ELSE IF i % 2 = 1 THEN FallingByOne ELSE RisingOnShadow]

CandleSeries ==
    {<<>>} \cup SeqsUpTo(Shapes, PatternMaxBars)
    \cup {PairsThen(pairs, shape) : pairs \in 2..MaxPairs, shape \in Shapes}

InitPatterns ==
    /\ \E shapes \in CandleSeries :
           heap = __init__([stock_data |-> CandleFrame(shapes),
                            copy |-> None])
    /\ self_data = "copy"
    /\ call = [op |-> "__init__"]
    /\ results = None

\* results = ti.detect_candlestick_patterns(); call.patterns is the list
\* `patterns` when the loop has ended, of which the last ten are returned.
DetectCandlestickPatterns ==
    /\ self_data # "unset"
    /\ \E patterns \in {AllPatterns(heap[self_data])} :
           /\ results' = KeepLastTen(patterns)
           /\ call' = [op |-> "detect_candlestick_patterns",
                       patterns |-> patterns]
    /\ UNCHANGED <<heap, self_data>>

NextPatterns == DetectCandlestickPatterns

SpecPatterns == InitPatterns /\ [][NextPatterns]_vars

----------------------------------------------------------------------------
(***************************************************************************)
(* The whole analysis.  heap.stock_data is the bar series at hand: the     *)
(* frame a caller passes to TechnicalIndicators, and what fetch_stock_data *)
(* returns to analyze_stock_technical (None when there is no data).        *)
(*                                                                         *)
(* The series are a flat stretch at one price followed by a few daily      *)
(* steps up or down (after the long stretch, steps in one direction);      *)
(* each bar opens at the close before it.  Some short ones come with       *)
(* their dates as strings, in reverse order, with a negative price or      *)
(* volume; one is empty.                                                   *)
(***************************************************************************)
BasePrice == 10
BaseVolume == 5
MaxTail == 5
FlatLens == {1, 15}
LongFlat == 55
Steps == {-1, 1}

DateString(day) == [ty |-> "str", day |-> day]

\* the closes: `flat` bars at BasePrice, then one bar per step of the tail
ClosesOf(flat, tail) ==
    Iterate(LAMBDA acc, i : IF i <= flat THEN BasePrice
                            ELSE acc[i - 1] + tail[i - flat],
            <<>>, 1, flat + Len(tail))

Bar(date, open, close, volume) ==
    [Date |-> date, Open |-> open, High |-> Max(open, close),
     Low |-> Min(open, close), Close |-> close, Volume |-> volume]

BarSeries(closes, volumes, Date(_)) ==
    Frame(Series(LAMBDA i : Bar(Date(i),
                                IF i = 1 THEN closes[1] ELSE closes[i - 1],
                                closes[i], volumes[i]),
                 Len(closes)))

FlatVolume(n) == Series(LAMBDA i : BaseVolume, n)
SurgeVolume(n) == Series(LAMBDA i : IF i = n THEN 3 * BaseVolume
                                    ELSE BaseVolume, n)

Tails(n) == UNION {[1..k -> Steps] : k \in 0..n}

\* the tails that keep one direction
Runs(n) == UNION {[1..k -> {step}] : k \in 0..n, step \in Steps}

\* the rows of a frame in reverse order
Reversed(frame) ==
    Frame(Series(LAMBDA i : frame.rows[len(frame) + 1 - i], len(frame)))

WellFormedSeries ==
    {BarSeries(ClosesOf(flat, tail), FlatVolume(flat + Len(tail)), Timestamp) :
        flat \in FlatLens, tail \in Tails(MaxTail)}
    \cup
    {BarSeries(ClosesOf(LongFlat, tail), FlatVolume(LongFlat + Len(tail)),
               Timestamp) :
        tail \in Runs(MaxTail)}
    \cup
    {BarSeries(ClosesOf(LongFlat, tail), SurgeVolume(LongFlat + Len(tail)),
               Timestamp) :
        tail \in Runs(1)}

StringDatedSeries ==
    {BarSeries(ClosesOf(1, tail), FlatVolume(1 + Len(tail)), DateString) :
        tail \in Tails(2)}

MalformedSeries ==
    {Reversed(f) : f \in {g \in StringDatedSeries : len(g) > 1}}
    \cup
    {Reversed(BarSeries(ClosesOf(15, tail), FlatVolume(15 + MaxTail),
                        Timestamp)) :
        tail \in [1..MaxTail -> {1}]}
    \cup
    {BarSeries(<<BasePrice, -1, BasePrice>>, FlatVolume(3), Timestamp),
     BarSeries(<<BasePrice, BasePrice + 1>>, <<BaseVolume, -BaseVolume>>,
               Timestamp),
     Frame(<<>>)}

Init ==
    /\ heap \in {[stock_data |-> f, copy |-> None] :
                    f \in WellFormedSeries \cup StringDatedSeries
                          \cup MalformedSeries \cup {None}}
    /\ self_data = "unset"
    /\ results = None
    /\ call = NoCall

\* ti = TechnicalIndicators(stock_data); None has no copy().
Construct ==
    /\ IF heap.stock_data = None
           THEN /\ call' = [op |-> "__init__", raised |-> "AttributeError"]
                /\ UNCHANGED <<heap, self_data>>
       ELSE /\ heap' = __init__(heap)
            /\ self_data' = "copy"
            /\ call' = [op |-> "__init__", raised |-> "none"]
    /\ UNCHANGED results

\* results = ti.calculate_all_indicators(); when it raises, the caller's
\* results stay as they were.
CalculateAllIndicators ==
    /\ self_data # "unset"
    /\ \E out \in {calculate_all_indicators(heap[self_data])} :
           /\ heap' = [heap EXCEPT ![self_data] = out.frame]
           /\ results' = IF out.raised = "none" THEN out.returned ELSE results
           /\ call' = [op |-> "calculate_all_indicators",
                       raised |-> out.raised]
    /\ UNCHANGED self_data

\* results = analyze_stock_technical(stock_symbol): the object it builds is
\* its own and is gone when it returns.
Returned(out) ==
    IF out.raised = "none" THEN out.returned ELSE [raised |-> out.raised]

analyze_stock_technical(stock_data) ==
    IF stock_data = None THEN None
    ELSE IF len(stock_data) = 0 THEN None
    ELSE Returned(calculate_all_indicators(
                      __init__([stock_data |-> stock_data, copy |-> None]).copy))

AnalyzeStockTechnical ==
    /\ \E returned \in {analyze_stock_technical(heap.stock_data)} :
           IF returned # None /\ "raised" \in DOMAIN returned
               THEN /\ call' = [op |-> "analyze_stock_technical",
                                raised |-> returned.raised]
                    /\ UNCHANGED results
           ELSE /\ results' = returned
                /\ call' = [op |-> "analyze_stock_technical",
                            raised |-> "none"]
    /\ UNCHANGED <<heap, self_data>>

Next == Construct \/ CalculateAllIndicators \/ AnalyzeStockTechnical

Spec == Init /\ [][Next]_vars

----------------------------------------------------------------------------
(***************************************************************************)
(* The six indicator methods called on one object in any order and any     *)
(* number of times, with calculate_all_indicators among them.  results is  *)
(* what the last call returned.                                            *)
(***************************************************************************)
Modules ==
    {"calculate_rsi", "calculate_macd", "calculate_bollinger_bands",
     "find_support_resistance", "analyze_volume",
     "detect_candlestick_patterns"}

\* One call of a method with its default arguments: the frame afterwards
\* and the value returned.
ReturnedRsi(frame) == [frame |-> frame, returned |-> frame.cols.RSI]

ReturnedMacd(frame) ==
    [frame |-> frame,
     returned |-> <<frame.cols.MACD, frame.cols.MACD_Signal,
                    frame.cols.MACD_Histogram>>]

ReturnedBands(frame) ==
    [frame |-> frame,
     returned |-> <<frame.cols.BB_Upper, frame.cols.BB_Middle,
                    frame.cols.BB_Lower>>]

Module(name, frame) ==
    CASE name = "calculate_rsi" -> ReturnedRsi(calculate_rsi(frame, 14))
      [] name = "calculate_macd" ->
             ReturnedMacd(calculate_macd(frame, 12, 26, 9))
      [] name = "calculate_bollinger_bands" ->
             ReturnedBands(calculate_bollinger_bands(frame, 20, 2))
      [] name = "find_support_resistance" ->
             [frame |-> frame, returned |-> find_support_resistance(frame, 5)]
      [] name = "analyze_volume" -> analyze_volume(frame)
      [] name = "detect_candlestick_patterns" ->
             [frame |-> frame, returned |-> detect_candlestick_patterns(frame)]

\* candles with shadows, and 20 bars that end in a run with a volume surge
ModuleSeries ==
    {CandleFrame(PairsThen(2, shape)) : shape \in Shapes}
    \cup
    {BarSeries(ClosesOf(15, tail), SurgeVolume(20), Timestamp) :
        tail \in [1..5 -> {1}] \cup [1..5 -> {-1}]}

InitModules ==
    /\ \E data \in ModuleSeries :
           heap = __init__([stock_data |-> data, copy |-> None])
    /\ self_data = "copy"
    /\ call = [op |-> "__init__", raised |-> "none"]
    /\ results = None

CallModule(name) ==
    /\ self_data # "unset"
    /\ \E out \in {Module(name, heap[self_data])} :
           /\ heap' = [heap EXCEPT ![self_data] = out.frame]
           /\ results' = out.returned
    /\ call' = [op |-> name, raised |-> "none"]
    /\ UNCHANGED self_data

NextModules ==
    \/ \E name \in Modules : CallModule(name)
    \/ CalculateAllIndicators

SpecModules == InitModules /\ [][NextModules]_vars

----------------------------------------------------------------------------
(***************************************************************************)
(* analyze_volume on its own: an object built on any short series of small *)
(* closes and volumes, or on a long series whose volume has one level in   *)
(* its last 20 bars and one before, with at most one bar a unit higher,    *)
(* then calls of analyze_volume.                                           *)
(***************************************************************************)
VolMaxBars == 4
VolMaxVolume == 2

\* two close levels: every order of rises, falls and unchanged closes
CloseLevels == {1, 2}

\* lengths around the two windows of 20 bars
VolumeLens == {19, 20, 21, 39, 40, 41, 42}

\* the volumes of n bars: `older` up to the last 20 bars, `recent` in them,
\* one more at the bar `bump` (0 for none)
BlockVolumes(n, older, recent, bump) ==
    Series(LAMBDA i : (IF i > n - 20 THEN recent ELSE older)
                      + (IF i = bump THEN 1 ELSE 0),
           n)

\* the bars a unit higher: none, the last before the 20 older bars, the last
\* of the older bars and the first of the recent ones
Bumps(n) == {0} \cup ({n - 40, n - 20, n - 19} \cap (1..n))

\* closes going up and down by 1
ZigZag(n) == Series(LAMBDA i : 1 + (i % 2), n)

ShortSeries(k) ==
    {BarSeries(closes, volumes, Timestamp) :
        closes \in [1..k -> CloseLevels],
        volumes \in [1..k -> 1..VolMaxVolume]}

LongSeries(n) ==
    {BarSeries(ZigZag(n), BlockVolumes(n, older, recent, bump), Timestamp) :
        older \in 1..VolMaxVolume, recent \in 1..VolMaxVolume,
        bump \in Bumps(n)}

VolumeSeries ==
    UNION ({ShortSeries(k) : k \in 1..VolMaxBars}
           \cup {LongSeries(n) : n \in VolumeLens})

InitVolume ==
    /\ \E frame \in VolumeSeries :
           heap = __init__([stock_data |-> frame, copy |-> None])
    /\ self_data = "copy"
    /\ call = [op |-> "__init__"]
    /\ results = None

\* results = ti.analyze_volume()
AnalyzeVolume ==
    /\ self_data # "unset"
    /\ \E out \in {analyze_volume(heap[self_data])} :
           /\ heap' = [heap EXCEPT ![self_data] = out.frame]
           /\ results' = out.returned
    /\ call' = [op |-> "analyze_volume"]
    /\ UNCHANGED self_data

NextVolume == AnalyzeVolume

SpecVolume == InitVolume /\ [][NextVolume]_vars

----------------------------------------------------------------------------
(***************************************************************************)
(* find_support_resistance on its own, on series with a turning bar every  *)
(* sixth bar: its high is a local maximum and its low a local minimum for  *)
(* order 5, and no other bar is either.  The peaks rise and the troughs    *)
(* fall from turn to turn by a step of 0 (one level), 1 (levels within the *)
(* 2% tolerance) or 10 (levels apart); the other bars trade 190..200 and   *)
(* close at 195, the last bar closes at or near its low or at 195.         *)
(***************************************************************************)
MaxTurns == 6

TurnSteps == {0, 1, 10}

PeakAt(turn, up) == 210 + up * (turn - 1)
TroughAt(turn, down) == 180 - down * (turn - 1)

\* the close of the last bar: on its low, 5 above it, or 195
LastCloseOf(trough) == {trough, trough + 5, 195}

TurningBar(day, turn, up, down, close) ==
    [Date |-> Timestamp(day), Open |-> 195, High |-> PeakAt(turn, up),
     Low |-> TroughAt(turn, down), Close |-> close, Volume |-> 1]

QuietBar(day) ==
    [Date |-> Timestamp(day), Open |-> 195, High |-> 200, Low |-> 190,
     Close |-> 195, Volume |-> 1]

TurningSeries(turns, up, down, last_close) ==
    Frame(Series(LAMBDA i :
                     IF i % 6 # 1 THEN QuietBar(i)
                     ELSE TurningBar(i, i \div 6 + 1, up, down,
                                     IF i = 6 * (turns - 1) + 1 THEN last_close
                                     ELSE 195),
                 6 * (turns - 1) + 1))

InitLevels ==
    /\ \E turns \in 1..MaxTurns, up \in TurnSteps, down \in TurnSteps :
           \E last_close \in LastCloseOf(TroughAt(turns, down)) :
               heap = __init__([stock_data |->
                                    TurningSeries(turns, up, down, last_close),
                                copy |-> None])
    /\ self_data = "copy"
    /\ call = [op |-> "__init__"]
    /\ results = None

\* results = ti.find_support_resistance()
FindSupportResistance ==
    /\ self_data # "unset"
    /\ results' = find_support_resistance(heap[self_data], 5)
    /\ call' = [op |-> "find_support_resistance"]
    /\ UNCHANGED <<heap, self_data>>

NextLevels == FindSupportResistance

SpecLevels == InitLevels /\ [][NextLevels]_vars

----------------------------------------------------------------------------
(***************************************************************************)
(* Properties of the recommendation engine, checked under SpecRec.         *)
(***************************************************************************)
rec == results.recommendation

\* The counters as the rules state them, before the volume step.
StatedBuyBeforeVolume(r) ==
    (IF r.rsi.signal = "Oversold" THEN 2 ELSE 0)
    + (IF r.macd.signal = "Buy" THEN 2 ELSE 0)
    + (IF r.bollinger_bands.signal = "Oversold" THEN 1 ELSE 0)
    + (IF r.trend \in {"Uptrend", "Strong Uptrend"} THEN 1 ELSE 0)

StatedSellBeforeVolume(r) ==
    (IF r.rsi.signal = "Overbought" THEN 2 ELSE 0)
    + (IF r.macd.signal = "Sell" THEN 2 ELSE 0)
    + (IF r.bollinger_bands.signal = "Overbought" THEN 1 ELSE 0)
    + (IF r.trend \in {"Downtrend", "Strong Downtrend"} THEN 1 ELSE 0)

\* C1: whatever the five signals are, the returned action is one of the five
\* labels and the confidence is an integer between 0 and 100.
C1_ActionAndConfidenceInRange ==
    rec # None =>
        /\ rec.action \in Actions
        /\ rec.confidence \in 0..100

\* C1 witness: a call returned the capped confidence of a Strong Buy.
C1_Witness ==
    /\ rec # None
    /\ rec.action = "Strong Buy"
    /\ rec.confidence = 95
    /\ SignalCounts(results).buy * 15 > 100

\* C2: the returned action and confidence are those of the first rule, in the
\* stated order, that the final counters match; Hold exactly when they are equal.
C2_FirstMatchingRule ==
    rec # None =>
        LET b == SignalCounts(results).buy
            s == SignalCounts(results).sell
        IN  /\ b > s + 2 =>
                rec.action = "Strong Buy" /\ rec.confidence = Min(95, 15 * b)
            /\ (b > s /\ ~(b > s + 2)) =>
                rec.action = "Buy" /\ rec.confidence = Min(80, 12 * b)
            /\ (s > b + 2 /\ ~(b > s)) =>
                rec.action = "Strong Sell" /\ rec.confidence = Min(95, 15 * s)
            /\ (s > b /\ ~(s > b + 2) /\ ~(b > s)) =>
                rec.action = "Sell" /\ rec.confidence = Min(80, 12 * s)
            /\ (~(b > s) /\ ~(s > b)) =>
                rec.action = "Hold" /\ rec.confidence = 50
            /\ rec.action = "Hold" <=> b = s

\* C2 witness: a Hold returned for equal, non-zero counters.
C2_Witness ==
    /\ rec # None
    /\ rec.action = "Hold"
    /\ SignalCounts(results).buy = SignalCounts(results).sell
    /\ SignalCounts(results).buy > 0

\* C3: the counters are the stated sums, the volume step adds 1 to buy only
\* when volume is Increasing and buy already leads, nothing is ever added to
\* sell for volume, and with buy <= sell before the volume step the volume
\* trend does not change the recommendation.
C3_CountsAndVolumeBonus ==
    rec # None =>
        LET pb == StatedBuyBeforeVolume(results)
            ps == StatedSellBeforeVolume(results)
            bonus == IF results.volume.volume_trend = "Increasing" /\ pb > ps
                     THEN 1 ELSE 0
        IN  /\ SignalCounts(results) = [buy |-> pb + bonus, sell |-> ps]
            /\ rec = Recommendation(pb + bonus, ps)
            /\ pb <= ps =>
                 \A v \in VolumeTrends :
                     _generate_recommendation(
                         [results EXCEPT !.volume.volume_trend = v]) = rec

\* C3 witness: volume is Increasing while sell leads, and a call returned.
C3_Witness ==
    /\ rec # None
    /\ results.volume.volume_trend = "Increasing"
    /\ StatedBuyBeforeVolume(results) > 0
    /\ StatedBuyBeforeVolume(results) < StatedSellBeforeVolume(results)

\* C4 (as stated): the reason of every returned recommendation, Hold
\* included, contains the buy counter and the sell counter.
C4_ReasonHasBothCounts ==
    rec # None =>
        /\ StrIn(ToString(SignalCounts(results).buy), rec.reason)
        /\ StrIn(ToString(SignalCounts(results).sell), rec.reason)

\* C4 (amended): the reason of every recommendation other than Hold contains
\* both counters ("<buy> buy", "<sell> sell"); the reason of a Hold is the
\* fixed text, which contains neither.
C4_ReasonHasBothCountsUnlessHold ==
    rec # None =>
        LET b == SignalCounts(results).buy
            s == SignalCounts(results).sell
        IN  /\ rec.action # "Hold" =>
                /\ StrIn(ToString(b) \o " buy", rec.reason)
                /\ StrIn(ToString(s) \o " sell", rec.reason)
            /\ rec.action = "Hold" =>
                /\ rec.reason = "Mixed signals - Wait for clearer trend"
                /\ ~StrIn(ToString(b), rec.reason)
                /\ ~StrIn(ToString(s), rec.reason)

\* C4 witness: a Sell whose reason carries two different counters.
C4_Witness ==
    /\ rec # None
    /\ rec.action = "Sell"
    /\ SignalCounts(results).buy > 0
    /\ StrIn(ToString(SignalCounts(results).buy) \o " buy", rec.reason)

----------------------------------------------------------------------------
(***************************************************************************)
(* Properties of calculate_rsi, checked under SpecRsi.                     *)
(***************************************************************************)
\* C9 (as stated): after calculate_rsi(period), the RSI of every bar is in
\* [0, 100] or undefined, and it is undefined only within the first
\* `period` bars.
C9_RsiInRangeOrEarlyUndefined ==
    call.op = "calculate_rsi" =>
        LET rsi == heap[self_data].cols.RSI
        IN  \A i \in 1..Len(rsi) :
                /\ isna(rsi[i]) \/ (FLe(Num(0), rsi[i]) /\ FLe(rsi[i], Num(100)))
                /\ isna(rsi[i]) => i <= call.period

\* C20 (as stated): after calculate_rsi(period), the RSI of each of the
\* first `period` bars (indexes 0 .. period-1) is undefined and their
\* RSI_Signal is Neutral.
C20_FirstPeriodBarsUndefined ==
    call.op = "calculate_rsi" =>
        \A i \in 1..Min(call.period, Len(heap[self_data].cols.RSI)) :
            /\ isna(heap[self_data].cols.RSI[i])
            /\ heap[self_data].cols.RSI_Signal[i] = "Neutral"

\* The close changes of the window of `period` rows that ends at row i (the
\* first row of the series has no change).
WindowChanges(i, period) == {j \in (i - period + 1)..i : j >= 2}

\* The window ending at row i holds a rise of the close and no fall.
RisesOnly(closes, i, period) ==
    /\ i >= period
    /\ \E j \in WindowChanges(i, period) : closes[j] > closes[j - 1]
    /\ \A j \in WindowChanges(i, period) : closes[j] >= closes[j - 1]

\* C21: at a bar whose trailing window holds at least one rise of the close
\* and no fall, the average loss is 0 and the division by it is not
\* special-cased: the RSI is exactly 100 and the RSI_Signal is Overbought.
C21_NoLossGivesHundred ==
    call.op = "calculate_rsi" =>
        \A i \in 1..len(heap[self_data]) :
            RisesOnly(Close(heap[self_data]), i, call.period) =>
                /\ heap[self_data].cols.RSI[i] = Num(100)
                /\ heap[self_data].cols.RSI_Signal[i] = "Overbought"

\* C21 witness: a bar after the first `period` bars whose window holds a
\* rise, an unchanged close and no fall has the RSI 100.
C21_Witness ==
    /\ call.op = "calculate_rsi"
    /\ \E i \in 1..len(heap[self_data]) :
           /\ i > call.period
           /\ RisesOnly(Close(heap[self_data]), i, call.period)
           /\ \E j \in WindowChanges(i, call.period) :
                  Close(heap[self_data])[j] = Close(heap[self_data])[j - 1]
           /\ heap[self_data].cols.RSI[i] = Num(100)

----------------------------------------------------------------------------
(***************************************************************************)
(* Properties of calculate_macd, checked under SpecMacd.                   *)
(***************************************************************************)
StrictlyIncreasing(xs) == \A i \in 2..Len(xs) : xs[i - 1] < xs[i]

\* C10 (as stated): on strictly increasing closes no bar is labelled Sell and
\* from some bar onward the histogram is non-negative (on a finite series:
\* it is non-negative at the last bar).
C10_NoSellAndHistogramEventuallyNonNegative ==
    (call.op = "calculate_macd" /\ StrictlyIncreasing(Close(heap[self_data]))) =>
        LET cols == heap[self_data].cols
            n == len(heap[self_data])
        IN  /\ \A i \in 1..n : cols.MACD_Cross[i] # "Sell"
            /\ \E k \in 1..n : \A i \in k..n : cols.MACD_Histogram[i].s >= 0

\* C10 (amended): on strictly increasing closes, with fast < slow and
\* signal > 1, the MACD line is positive at every bar after the first (the
\* fast average is above the slow one), the histogram is positive at the
\* second bar, which is labelled Buy, and so any Sell comes after a Buy.
C10_MacdPositiveAndBuyFirst ==
    (call.op = "calculate_macd" /\ StrictlyIncreasing(Close(heap[self_data]))) =>
        LET cols == heap[self_data].cols
            n == len(heap[self_data])
        IN  /\ cols.MACD[1].s = 0 /\ cols.MACD_Cross[1] = "Hold"
            /\ \A i \in 2..n : cols.MACD[i].s > 0
            /\ n >= 2 => cols.MACD_Histogram[2].s > 0 /\ cols.MACD_Cross[2] = "Buy"
            /\ \A i \in 1..n : cols.MACD_Cross[i] = "Sell" =>
                   \E j \in 1..(i - 1) : cols.MACD_Cross[j] = "Buy"

\* C10 witness: the default spans on a rising series labelled one bar Sell
\* and left the histogram negative at the last bar.
C10_Witness ==
    /\ call.op = "calculate_macd" /\ call.fast = 12
    /\ StrictlyIncreasing(Close(heap[self_data]))
    /\ \E i \in 1..len(heap[self_data]) :
           heap[self_data].cols.MACD_Cross[i] = "Sell"
    /\ Last(heap[self_data].cols.MACD_Histogram).s < 0

----------------------------------------------------------------------------
(***************************************************************************)
(* Properties of the whole analysis, checked under Spec.                   *)
(***************************************************************************)
\* The last call was an analysis of the caller's series.
Analysed ==
    call.op \in {"calculate_all_indicators", "analyze_stock_technical"}

\* The number of bars of the caller's series.
Bars == IF heap.stock_data = None THEN 0 ELSE len(heap.stock_data)

\* The object's frame holds the columns of the first three indicators.
HasIndicatorColumns(frame) ==
    /\ frame # None
    /\ {"RSI", "MACD", "BB_Upper"} \subseteq DOMAIN frame.cols

\* C5: no operation of the analysis changes the series the caller passed
\* in, and analysing the same series again gives the same result.
C5_InputUntouchedAndRepeatable ==
    [][/\ heap'.stock_data = heap.stock_data
       /\ (results # None /\ results' # None) => results' = results]_vars

\* C5 witness: a series with string dates was analysed on an object, which
\* set the object's columns, and then analysed again from the start.
C5_Witness ==
    /\ call.op = "analyze_stock_technical"
    /\ results # None
    /\ HasIndicatorColumns(heap.copy)
    /\ heap.stock_data.rows[1].Date.ty = "str"
    /\ heap.copy.rows # heap.stock_data.rows

\* C6 (as stated): a series of fewer than 60 bars yields no result but an
\* InsufficientData failure; one of 60 bars or more yields a result.
C6_FailsBelowSixtyBars ==
    (Analysed /\ Bars >= 1) =>
        IF Bars < 60
            THEN results = None /\ call.raised = "InsufficientData"
        ELSE results # None /\ call.raised = "none"

\* C6 (amended): no minimum length is enforced.  Every series of at least
\* one bar is analysed without an error, below 60 bars as well, and
\* analyze_stock_technical returns None only when there are no bars.
\* What a short series lacks is reported as undefined: the RSI is 0 with
\* "Insufficient data" below 14 bars, sma_20 is NaN exactly below 20 bars
\* and sma_50 exactly below 50.
C6_AnalysedAtAnyLength ==
    /\ (Analysed /\ Bars >= 1) => results # None /\ call.raised = "none"
    /\ call.op = "analyze_stock_technical" =>
           call.raised = "none" /\ (results = None <=> Bars = 0)
    /\ (Analysed /\ results # None) =>
           /\ Bars < 14 => /\ results.rsi.value = Num(0)
                           /\ results.rsi.interpretation = "Insufficient data"
           /\ isna(results.sma_20) <=> Bars < 20
           /\ isna(results.sma_50) <=> Bars < 50

\* C6 witness: a series of 20 to 49 bars was analysed and has a result with
\* a 20-bar average and no 50-bar average.
C6_Witness ==
    /\ Analysed /\ results # None
    /\ Bars >= 20 /\ Bars < 50
    /\ ~isna(results.sma_20) /\ isna(results.sma_50)

\* Some row is dated after the row that follows it.
Unsorted(frame) ==
    \E i \in 1..(len(frame) - 1) :
        frame.rows[i].Date.day > frame.rows[i + 1].Date.day

\* Some price or volume is negative.
HasNegative(frame) ==
    \E i \in 1..len(frame) :
        \E c \in {"Open", "High", "Low", "Close", "Volume"} :
            frame.rows[i][c] < 0

Malformed(frame) ==
    frame # None /\ (len(frame) = 0 \/ Unsorted(frame) \/ HasNegative(frame))

\* The close of the bar with the latest date.
LatestClose(frame) ==
    LET i == CHOOSE k \in 1..len(frame) :
                 \A j \in 1..len(frame) :
                     frame.rows[j].Date.day <= frame.rows[k].Date.day
    IN  frame.rows[i].Close

\* C7 (as stated): on a malformed series (empty, out of date order, or with
\* a negative price or volume) every operation ends without an exception,
\* gives no result and computes no indicator.
C7_MalformedRejected ==
    (call.op # "none" /\ Malformed(heap.stock_data)) =>
        /\ call.raised = "none"
        /\ results = None
        /\ ~HasIndicatorColumns(heap.copy)

\* C7 (amended): a malformed series is not rejected.  Construction sorts
\* the rows by date and keeps every bar; a series out of order or with a
\* negative price or volume is then analysed like any other, its current
\* price being the close of the latest bar.  Only an empty series gives no
\* result: analyze_stock_technical returns None for it and computes nothing,
\* and calculate_all_indicators on an object built from it raises
\* IndexError after the RSI, MACD and Bollinger columns are set.
C7_MalformedSortedAndAnalysed ==
    /\ heap.copy # None =>
           /\ ~Unsorted(heap.copy)
           /\ len(heap.copy) = len(heap.stock_data)
           /\ \A i \in 1..len(heap.stock_data) :
                  \E k \in 1..len(heap.copy) :
                      heap.copy.rows[k] =
                          [heap.stock_data.rows[i] EXCEPT
                               !.Date = to_datetime(@)]
    /\ (Analysed /\ Malformed(heap.stock_data) /\ Bars >= 1) =>
           /\ call.raised = "none"
           /\ results # None
           /\ results.current_price = Num(LatestClose(heap.stock_data))
    /\ (call.op = "analyze_stock_technical" /\ Bars = 0) =>
           call.raised = "none" /\ results = None
    /\ (call.op = "calculate_all_indicators" /\ Bars = 0) =>
           /\ call.raised = "IndexError"
           /\ results = None
           /\ HasIndicatorColumns(heap.copy)

\* C7 witness: a series given latest bar first was analysed on an object
\* and has a result.
C7_Witness ==
    /\ call.op = "calculate_all_indicators"
    /\ Bars >= 2
    /\ \A i \in 1..(Bars - 1) :
           heap.stock_data.rows[i].Date.day >
               heap.stock_data.rows[i + 1].Date.day
    /\ results # None
    /\ HasIndicatorColumns(heap.copy)

\* The closes of the last n bars, in the order given.
LastCloses(frame, n) == LastN(Close(frame), n)

\* The last five bars each close above the bar before.
FiveHigherCloses(frame) ==
    /\ len(frame) >= 6
    /\ StrictlyIncreasing(LastCloses(frame, 6))

\* Every bar has the same volume.
FlatVolumes(frame) ==
    \A i \in 1..len(frame) : frame.rows[i].Volume = frame.rows[1].Volume

\* No close of the last 20 bars is below the close before it.
TwentyNeverFalling(frame) ==
    /\ len(frame) >= 20
    /\ \A i \in (len(frame) - 18)..len(frame) :
           frame.rows[i - 1].Close <= frame.rows[i].Close

\* A series in date order ending in five higher closes on flat volume was
\* analysed.
RisingTailAnalysed ==
    /\ Analysed /\ results # None
    /\ ~Unsorted(heap.stock_data)
    /\ FiveHigherCloses(heap.stock_data)
    /\ FlatVolumes(heap.stock_data)

\* C8 (as stated): for a series whose final five bars have strictly higher
\* closes on flat volume, the trend is up, the buy count is positive and
\* the action is Buy or Strong Buy.
C8_RisingTailGivesBuy ==
    RisingTailAnalysed =>
        /\ results.trend \in {"Uptrend", "Strong Uptrend"}
        /\ SignalCounts(results).buy > 0
        /\ rec.action \in {"Buy", "Strong Buy"}

\* C8 (amended): for a series of at least 20 bars whose last 20 closes
\* never fall and whose final five closes are strictly higher each, on flat
\* volume, the trend is Uptrend or Strong Uptrend and the buy count is
\* positive; the RSI is then Overbought, which counts as a sell signal, and
\* the action is Buy or Strong Buy exactly when the buy count exceeds the
\* sell count.
C8_RisingTailGivesUptrend ==
    (RisingTailAnalysed /\ TwentyNeverFalling(heap.stock_data)) =>
        /\ results.trend \in {"Uptrend", "Strong Uptrend"}
        /\ SignalCounts(results).buy > 0
        /\ results.rsi.signal = "Overbought"
        /\ SignalCounts(results).sell > 0
        /\ rec.action \in {"Buy", "Strong Buy"} <=>
               SignalCounts(results).buy > SignalCounts(results).sell

\* C8 witness: such a series was analysed, is in an uptrend, and the action
\* is Sell.
C8_Witness ==
    /\ RisingTailAnalysed /\ TwentyNeverFalling(heap.stock_data)
    /\ results.trend = "Uptrend"
    /\ rec.action = "Sell"

----------------------------------------------------------------------------
(***************************************************************************)
(* Properties of cluster_levels, checked under SpecCluster.                *)
(***************************************************************************)
\* C11: re-clustering is idempotent: cluster_levels applied, with the same
\* tolerance, to what cluster_levels returned for a list of positive levels
\* returns it unchanged.
C11_ReclusteringIdempotent ==
    (call.op = "cluster_levels" /\ call.of = "clustered") =>
        results = heap.clustered

\* C11 witness: levels given out of order were clustered into at least two
\* clusters, one of them holding several levels, and clustered again.
C11_Witness ==
    /\ call.op = "cluster_levels" /\ call.of = "clustered"
    /\ \E i \in 2..Len(heap.levels) : FLt(heap.levels[i], heap.levels[i - 1])
    /\ Len(results) >= 2
    /\ \E i \in 1..Len(results) :
           \A j \in 1..Len(heap.levels) : results[i] # heap.levels[j]

\* The candidates in ascending order.
Ascending == sorted(heap.levels)

\* The place where the cluster holding place i starts, the clusters after
\* the first starting at the places in `starts`.
StartOf(starts, i) ==
    IF \E b \in starts : b <= i
        THEN CHOOSE b \in starts : b <= i /\ \A c \in starts : c <= i => c <= b
    ELSE 1

\* The mean of the ascending candidates at the places lo..hi.
MeanOf(lo, hi) == FDiv(SumRange(Ascending, lo, hi), Num(hi - lo + 1))

\* The relative distance of the candidate at place i from the mean of the
\* cluster as it stands before it.
DistanceAt(starts, i) ==
    FDiv(FAbs(FSub(Ascending[i], MeanOf(StartOf(starts, i - 1), i - 1))),
         MeanOf(StartOf(starts, i - 1), i - 1))

\* The places where clusters end, for clusters starting at `starts`.
Ends(starts) == {b - 1 : b \in starts} \cup {Len(Ascending)}

\* The result lists, in ascending order, the mean of each cluster.
MeansOf(starts) ==
    /\ Len(results) = Cardinality(starts) + 1
    /\ \A e \in Ends(starts) :
           results[Cardinality({f \in Ends(starts) : f <= e})]
               = MeanOf(StartOf(starts, e), e)

\* C24 (as stated): a candidate starts a new cluster only when its relative
\* distance from the running mean exceeds the tolerance, so one at exactly
\* 2% stays in the current cluster.
C24_JoinsWithinOrAtTolerance ==
    (call.op = "cluster_levels" /\ call.of = "levels"
     /\ Len(heap.levels) >= 1) =>
        \E starts \in SUBSET (2..Len(Ascending)) :
            /\ \A i \in 2..Len(Ascending) :
                   i \in starts <=> FGt(DistanceAt(starts, i), Tolerance)
            /\ MeansOf(starts)

\* C24 (amended): the candidates are taken in ascending order; a candidate
\* joins the current cluster when its relative distance from the running
\* mean is below the tolerance, and starts a new cluster when it is at the
\* tolerance or beyond, so one at exactly 2% starts a new cluster; the
\* result is the mean of each cluster.
C24_JoinsBelowTolerance ==
    (call.op = "cluster_levels" /\ call.of = "levels"
     /\ Len(heap.levels) >= 1) =>
        \E starts \in SUBSET (2..Len(Ascending)) :
            /\ \A i \in 2..Len(Ascending) :
                   i \in starts <=> ~FLt(DistanceAt(starts, i), Tolerance)
            /\ MeansOf(starts)

\* C24 witness: of candidates given out of order, one joined a cluster of
\* two whose mean it lies within 2% of, and one at exactly 2% of the
\* cluster before it started a new cluster.
C24_Witness ==
    /\ call.op = "cluster_levels" /\ call.of = "levels"
    /\ \E i \in 2..Len(heap.levels) : FLt(heap.levels[i], heap.levels[i - 1])
    /\ \E starts \in SUBSET (2..Len(Ascending)) :
           /\ MeansOf(starts)
           /\ \E i \in starts : DistanceAt(starts, i) = Tolerance
           /\ \E i \in 3..Len(Ascending) :
                  /\ i \notin starts /\ i - 1 \notin starts
                  /\ Ascending[i] # Ascending[i - 1]
                  /\ Ascending[i - 1] # Ascending[i - 2]

----------------------------------------------------------------------------
(***************************************************************************)
(* Properties of detect_candlestick_patterns, checked under SpecPatterns.  *)
(***************************************************************************)
\* detect_candlestick_patterns has returned: call.patterns is every event
\* it found, results the events it returned.
Detected == call.op = "detect_candlestick_patterns"

\* Some event found is the given pattern, dated at the given row.
EventAt(pattern, row) ==
    \E e \in 1..Len(call.patterns) :
        /\ call.patterns[e].pattern = pattern
        /\ call.patterns[e].date = row.Date

\* C12: no bar gets both a Bullish Engulfing and a Bearish Engulfing event.
C12_NeverBothEngulfings ==
    Detected =>
        \A i \in 1..len(heap.copy) :
            ~(/\ EventAt("Bullish Engulfing", heap.copy.rows[i])
              /\ EventAt("Bearish Engulfing", heap.copy.rows[i]))

\* C12 witness: a series got a Bullish Engulfing event at one bar and a
\* Bearish Engulfing event at the next.
C12_Witness ==
    /\ Detected
    /\ \E i \in 1..(len(heap.copy) - 1) :
           /\ EventAt("Bullish Engulfing", heap.copy.rows[i])
           /\ EventAt("Bearish Engulfing", heap.copy.rows[i + 1])

\* The row falls, and the next row rises from below its close to above its
\* open.
EngulfedByNext(frame, n) ==
    /\ frame.rows[n].Close < frame.rows[n].Open
    /\ frame.rows[n + 1].Close > frame.rows[n + 1].Open
    /\ frame.rows[n + 1].Close > frame.rows[n].Open
    /\ frame.rows[n + 1].Open < frame.rows[n].Close

\* C13 (as stated): for every bar N that is bearish and followed by a
\* bullish bar closing above its open and opening below its close, the
\* events found include a Bullish Engulfing dated at bar N+1.
C13_EngulfingAtEveryBar ==
    Detected =>
        \A n \in 1..(len(heap.copy) - 1) :
            EngulfedByNext(heap.copy, n) =>
                EventAt("Bullish Engulfing", heap.copy.rows[n + 1])

\* C13 (amended): the same, for every bar N from the second on, so that bar
\* N+1 is the third bar of the series or a later one; the first two bars of
\* a series are never looked at and get no Bullish Engulfing event.
C13_EngulfingFromThirdBar ==
    Detected =>
        /\ \A n \in 2..(len(heap.copy) - 1) :
               EngulfedByNext(heap.copy, n) =>
                   EventAt("Bullish Engulfing", heap.copy.rows[n + 1])
        /\ \A n \in 1..Min(2, len(heap.copy)) :
               ~EventAt("Bullish Engulfing", heap.copy.rows[n])

\* C13 witness: the first bar falls and the second engulfs it, without an
\* event, and later in the series the same pair of bars gets the event.
C13_Witness ==
    /\ Detected
    /\ len(heap.copy) >= 4
    /\ EngulfedByNext(heap.copy, 1)
    /\ ~EventAt("Bullish Engulfing", heap.copy.rows[2])
    /\ EngulfedByNext(heap.copy, 3)
    /\ heap.copy.rows[3].Open = 180 /\ heap.copy.rows[3].Close = 160
    /\ heap.copy.rows[4].Open = 156 /\ heap.copy.rows[4].Close = 190
    /\ EventAt("Bullish Engulfing", heap.copy.rows[4])

\* range > 0 and body / range < 0.1, in whole numbers
SmallBodyInRange(row) ==
    /\ row.High > row.Low
    /\ 10 * Abs(row.Close - row.Open) < row.High - row.Low

\* Some event found is a Doji of type Neutral dated at the row.
DojiAt(row) ==
    \E e \in 1..Len(call.patterns) :
        /\ call.patterns[e].pattern = "Doji"
        /\ call.patterns[e].type = "Neutral"
        /\ call.patterns[e].date = row.Date

\* C14 (as stated): every bar with range > 0 and body / range < 0.1 is
\* classified Doji, of type Neutral, at every position in the series.
C14_DojiAtEveryPosition ==
    Detected =>
        \A n \in 1..len(heap.copy) :
            SmallBodyInRange(heap.copy.rows[n]) => DojiAt(heap.copy.rows[n])

\* C14 (amended): every such bar at the third position of the series or a
\* later one is classified Doji, of type Neutral; a bar at the first or the
\* second position is never looked at and is not classified.
C14_DojiFromThirdBar ==
    Detected =>
        /\ \A n \in 3..len(heap.copy) :
               SmallBodyInRange(heap.copy.rows[n]) =>
                   DojiAt(heap.copy.rows[n])
        /\ \A n \in 1..Min(2, len(heap.copy)) :
               ~EventAt("Doji", heap.copy.rows[n])

\* C14 witness: the bar 200 -> 201 between 216 and 184, and a bar with no
\* body, stand at the second and at a later position; only the later ones
\* are classified.
C14_Witness ==
    /\ Detected
    /\ len(heap.copy) >= 4
    /\ heap.copy.rows[2].Open = 200 /\ heap.copy.rows[2].Close = 201
    /\ heap.copy.rows[2].High = 216 /\ heap.copy.rows[2].Low = 184
    /\ ~EventAt("Doji", heap.copy.rows[2])
    /\ heap.copy.rows[3] = [heap.copy.rows[2] EXCEPT !.Date = Timestamp(3)]
    /\ DojiAt(heap.copy.rows[3])
    /\ heap.copy.rows[4].Open = heap.copy.rows[4].Close
    /\ DojiAt(heap.copy.rows[4])

\* The order in which the checks of one bar are made.
CheckOrder ==
    <<"Doji", "Hammer", "Shooting Star", "Bullish Engulfing",
      "Bearish Engulfing">>

CheckRank(pattern) == CHOOSE i \in 1..Len(CheckOrder) : CheckOrder[i] = pattern

\* C19: the events returned are the last min(10, total) of the events found
\* over the whole series, which are in date order and, within one bar, in
\* the order Doji, Hammer, Shooting Star, Bullish Engulfing, Bearish
\* Engulfing; the cut counts events, so it may fall inside a bar.
C19_LastTenEventsInOrder ==
    Detected =>
        LET total == Len(call.patterns)
            kept == Len(results)
        IN  /\ kept = Min(10, total)
            /\ \A i \in 1..kept : results[i] = call.patterns[total - kept + i]
            /\ \A i \in 2..total :
                   \/ call.patterns[i - 1].date.day < call.patterns[i].date.day
                   \/ /\ call.patterns[i - 1].date = call.patterns[i].date
                      /\ CheckRank(call.patterns[i - 1].pattern)
                             < CheckRank(call.patterns[i].pattern)

\* C19 witness: more than ten events were found, one bar has three of them,
\* and the cut falls inside a bar: the last event left out and the first
\* event returned are of the same bar.
C19_Witness ==
    /\ Detected
    /\ Len(call.patterns) > 10
    /\ Len(results) = 10
    /\ call.patterns[Len(call.patterns) - 10].date = results[1].date
    /\ \E i \in 1..8 : results[i].date = results[i + 2].date

----------------------------------------------------------------------------
(***************************************************************************)
(* Properties of calculate_bollinger_bands, checked under SpecBb.          *)
(***************************************************************************)
\* The difference s - t of two values a + b * sqrt(r) over the same r.
SurdMinus(s, t) == Surd(FSub(s.a, t.a), FSub(s.b, t.b), s.r)

\* The Bollinger bands of row i are defined.
BandsDefined(cols, i) ==
    /\ ~isna(cols.BB_Middle[i])
    /\ ~SurdIsNa(cols.BB_Upper[i])
    /\ ~SurdIsNa(cols.BB_Lower[i])

\* C15: at every bar where the Bollinger bands are defined,
\* upper >= middle >= lower, and width = upper - lower >= 0.
C15_BandsOrdered ==
    call.op = "calculate_bollinger_bands" =>
        LET cols == heap[self_data].cols
        IN  \A i \in 1..len(heap[self_data]) :
                BandsDefined(cols, i) =>
                    /\ FGe(cols.BB_Upper[i].r, Num(0))
                    /\ GeSurd(cols.BB_Middle[i], cols.BB_Lower[i])
                    /\ LeSurd(cols.BB_Middle[i], cols.BB_Upper[i])
                    /\ SurdSign(SurdMinus(cols.BB_Upper[i],
                                          cols.BB_Lower[i])) >= 0
                    /\ SurdSign(SurdMinus(cols.BB_Width[i],
                                          SurdMinus(cols.BB_Upper[i],
                                                    cols.BB_Lower[i]))) = 0
                    /\ SurdSign(cols.BB_Width[i]) >= 0

\* C15 witness: bands were computed with the default multiplier; they are
\* undefined at the first bar, of width 0 at one bar and wider at another.
C15_Witness ==
    /\ call.op = "calculate_bollinger_bands" /\ call.std_dev = 2
    /\ LET cols == heap[self_data].cols
       IN  /\ ~BandsDefined(cols, 1)
           /\ \E i \in 1..len(heap[self_data]) :
                  BandsDefined(cols, i) /\ SurdSign(cols.BB_Width[i]) = 0
           /\ \E i \in 1..len(heap[self_data]) :
                  BandsDefined(cols, i) /\ SurdSign(cols.BB_Width[i]) > 0

\* C23 (as stated): at every bar where the bands are defined, BB_Signal is
\* Overbought when close >= upper band, Oversold when close <= lower band
\* and close < upper band, and Neutral otherwise; so at a bar whose window
\* has zero deviation (upper = lower = close) it is Overbought.
C23_SignalOverboughtFirst ==
    call.op = "calculate_bollinger_bands" =>
        LET cols == heap[self_data].cols
            closes == Floats(Close(heap[self_data]))
        IN  \A i \in 1..len(heap[self_data]) :
                BandsDefined(cols, i) =>
                    cols.BB_Signal[i] =
                        IF GeSurd(closes[i], cols.BB_Upper[i])
                            THEN "Overbought"
                        ELSE IF LeSurd(closes[i], cols.BB_Lower[i])
                            THEN "Oversold"
                        ELSE "Neutral"

----------------------------------------------------------------------------
(***************************************************************************)
(* Properties of the indicator methods called in any order, checked under  *)
(* SpecModules.                                                            *)
(***************************************************************************)
\* The derived columns a method writes.
ModuleColumns(name) ==
    CASE name = "calculate_rsi" -> {"RSI", "RSI_Signal"}
      [] name = "calculate_macd" ->
             {"MACD", "MACD_Signal", "MACD_Histogram", "MACD_Cross"}
      [] name = "calculate_bollinger_bands" ->
             {"BB_Middle", "BB_Upper", "BB_Lower", "BB_Width", "BB_Signal"}
      [] name = "analyze_volume" -> {"Volume_MA", "Volume_Spike", "OBV"}
      [] OTHER -> {}

\* The columns of the frame that a method writes are those the method
\* writes when it is the only one called on the raw frame.
OwnColumnsAsAlone(name, frame, alone) ==
    \A c \in ModuleColumns(name) :
        c \in DOMAIN frame.cols /\ frame.cols[c] = alone.cols[c]

----------------------------------------------------------------------------
(***************************************************************************)
(* Properties of the trend and of the levels in the whole analysis,        *)
(* checked under Spec.                                                     *)
(***************************************************************************)
\* The caller's series as the object holds it: dates parsed, sorted by date.
SortedInput ==
    __init__([stock_data |-> heap.stock_data, copy |-> None]).copy

\* The sum of the whole numbers xs[lo..hi].
RECURSIVE IntSum(_, _, _)
IntSum(xs, lo, hi) ==
    IF lo > hi THEN 0
    ELSE IF lo = hi THEN xs[lo]
    ELSE IntSum(xs, lo, (lo + hi) \div 2)
             + IntSum(xs, (lo + hi) \div 2 + 1, hi)

\* The sum of the last k of the closes.
SumOfLast(closes, k) == IntSum(closes, Len(closes) - k + 1, Len(closes))

\* The trend rules as stated, in whole numbers: the close is above SMA20
\* when 20 closes exist and 20 * close exceeds their sum, SMA20 is above
\* SMA50 when 50 closes exist and 50 * (sum of 20) exceeds 20 * (sum of 50).
StatedTrendOf(close, bars, sum20, sum50) ==
    IF bars >= 50 /\ 20 * close > sum20 /\ 50 * sum20 > 20 * sum50
        THEN "Strong Uptrend"
    ELSE IF bars >= 20 /\ 20 * close > sum20 THEN "Uptrend"
    ELSE IF bars >= 50 /\ 20 * close < sum20 /\ 50 * sum20 < 20 * sum50
        THEN "Strong Downtrend"
    ELSE IF bars >= 20 /\ 20 * close < sum20 THEN "Downtrend"
    ELSE "Sideways"

StatedTrend(closes) ==
    StatedTrendOf(Last(closes), Len(closes),
                  IF Len(closes) >= 20 THEN SumOfLast(closes, 20) ELSE 0,
                  IF Len(closes) >= 50 THEN SumOfLast(closes, 50) ELSE 0)

\* C17: the trend label is the first rule that matches, a comparison with
\* an undefined average being false; so below 20 bars it is Sideways, below
\* 50 bars it is not Strong Uptrend or Strong Downtrend, and the analysis
\* ends without an error.
C17_TrendByFirstRule ==
    (Analysed /\ Bars >= 1) =>
        /\ call.raised = "none"
        /\ results # None
        /\ results.trend = StatedTrend(Close(SortedInput))
        /\ Bars < 20 => results.trend = "Sideways"
        /\ Bars < 50 =>
               results.trend \notin {"Strong Uptrend", "Strong Downtrend"}

\* C17 witness: 20 bars ending in falling closes are a Downtrend, the
\* 50-bar average being undefined.
C17_Witness ==
    /\ Analysed /\ results # None
    /\ Bars = 20
    /\ isna(results.sma_50)
    /\ results.trend = "Downtrend"

\* The level is one of the levels, on the side of the price that `side`
\* names, and no level on that side is nearer to the price.
NearestOn(level, levels, price, side) ==
    /\ \E i \in 1..Len(levels) : levels[i] = level
    /\ IF side = "below" THEN FLt(level, price) ELSE FGt(level, price)
    /\ \A i \in 1..Len(levels) :
           IF side = "below"
               THEN FLt(levels[i], price) => FLe(levels[i], level)
           ELSE FGt(levels[i], price) => FGe(levels[i], level)

\* No level lies on that side of the price.
NoneOn(levels, price, side) ==
    \A i \in 1..Len(levels) :
        IF side = "below" THEN ~FLt(levels[i], price)
        ELSE ~FGt(levels[i], price)

NearestOrNone(level, levels, price, side) ==
    IF level = None THEN NoneOn(levels, price, side)
    ELSE NearestOn(level, levels, price, side)

StatedLevels(sr, supports, resistances, price) ==
    /\ sr.current_price = price
    /\ NearestOrNone(sr.nearest_support, supports, price, "below")
    /\ NearestOrNone(sr.nearest_resistance, resistances, price, "above")
    /\ (sr.nearest_support # None /\ sr.nearest_resistance # None) =>
           /\ FLt(sr.nearest_support, price)
           /\ FLt(price, sr.nearest_resistance)
    /\ sr.nearest_support # price
    /\ sr.nearest_resistance # price

\* C18: the nearest support is the greatest clustered support level
\* strictly below the last close, or None when there is none; the nearest
\* resistance is the least clustered resistance level strictly above it, or
\* None; when both exist the price lies strictly between them, and a level
\* equal to the price is neither.
C18_NearestLevelsStrict ==
    (Analysed /\ results # None) =>
        StatedLevels(results.support_resistance,
                     SupportLevels(Column(SortedInput, "Low"), 5),
                     ResistanceLevels(Column(SortedInput, "High"), 5),
                     Num(Last(Close(SortedInput))))

\* A clustered level of the analysed series equals its last close.
LevelAtPrice(levels, price) == \E i \in 1..Len(levels) : levels[i] = price

\* C18 witness: an analysed series has a support below and a resistance
\* above its last close, and one of its clustered support levels equals
\* the last close without being the nearest support.
C18_Witness ==
    /\ Analysed /\ results # None
    /\ results.support_resistance.nearest_support # None
    /\ results.support_resistance.nearest_resistance # None
    /\ LevelAtPrice(SupportLevels(Column(SortedInput, "Low"), 5),
                    results.support_resistance.current_price)

----------------------------------------------------------------------------
(***************************************************************************)
(* Properties of the MACD_Cross column, checked under SpecMacd.            *)
(***************************************************************************)
\* The side of the signal line the MACD line is on at row i of the object's
\* frame: 1 above, 0 on it, -1 below.
SideAt(i) ==
    BigCmp(heap[self_data].cols.MACD[i], heap[self_data].cols.MACD_Signal[i])

CrossAt(i) == heap[self_data].cols.MACD_Cross[i]

\* C22: the first bar is Hold; a later bar is Buy exactly when the MACD line
\* is above the signal line there and was on or below it one bar earlier,
\* Sell exactly when it is below and was on or above, and Hold otherwise:
\* the label is a function of the two bars alone.
C22_CrossFromPairOfBars ==
    call.op = "calculate_macd" =>
        /\ len(heap[self_data]) >= 1 => CrossAt(1) = "Hold"
        /\ \A i \in 2..len(heap[self_data]) :
               /\ CrossAt(i) = "Buy" <=> (SideAt(i) > 0 /\ SideAt(i - 1) <= 0)
               /\ CrossAt(i) = "Sell" <=> (SideAt(i) < 0 /\ SideAt(i - 1) >= 0)
               /\ CrossAt(i) \in {"Buy", "Sell", "Hold"}

\* C22 witness: a column with a Buy at the second bar (the lines coincide
\* at the first), a Sell, and a Hold at a bar where the MACD line stays
\* above the signal line.
C22_Witness ==
    /\ call.op = "calculate_macd"
    /\ len(heap[self_data]) >= 3
    /\ CrossAt(2) = "Buy" /\ SideAt(1) = 0
    /\ \E i \in 2..len(heap[self_data]) : CrossAt(i) = "Sell"
    /\ \E i \in 2..len(heap[self_data]) :
           CrossAt(i) = "Hold" /\ SideAt(i) > 0 /\ SideAt(i - 1) > 0

----------------------------------------------------------------------------
(***************************************************************************)
(* Properties of analyze_volume, checked under SpecVolume.                 *)
(***************************************************************************)
\* The closes, the volumes and the OBV column of the object's frame.
VClose == Close(heap[self_data])
VVolume == Column(heap[self_data], "Volume")
Obv == heap[self_data].cols.OBV

\* C25: OBV starts at 0 whatever the first bar's volume; at each later bar
\* it grows by the bar's volume when the close rose, falls by it when the
\* close fell, and stays when the close is unchanged; the reported obv is
\* its last value, within the sum of the volumes of all bars but the first.
C25_ObvRunningTotal ==
    call.op = "analyze_volume" =>
        /\ Len(Obv) = Len(VClose)
        /\ Obv[1] = 0
        /\ \A i \in 2..Len(VClose) :
               Obv[i] = Obv[i - 1]
                        + (IF VClose[i] > VClose[i - 1] THEN VVolume[i]
                           ELSE IF VClose[i] < VClose[i - 1] THEN -VVolume[i]
                           ELSE 0)
        /\ results.obv = Obv[Len(Obv)]
        /\ Abs(results.obv) <= IntSum(VVolume, 2, Len(VVolume))

\* C25 witness: over a rise, a fall and an unchanged close, with a first
\* bar of volume 2, the reported obv is negative.
C25_Witness ==
    /\ call.op = "analyze_volume"
    /\ VVolume[1] = 2
    /\ \E i \in 2..Len(VClose) : VClose[i] > VClose[i - 1]
    /\ \E i \in 2..Len(VClose) : VClose[i] < VClose[i - 1]
    /\ \E i \in 2..Len(VClose) : VClose[i] = VClose[i - 1]
    /\ results.obv < 0

\* The first of the most recent 20 bars, and the first of the (up to 20)
\* bars before them.
RecentFrom == Max(Len(VVolume) - 20, 0) + 1
OlderFrom == Max(Len(VVolume) - 40, 0) + 1

\* The mean volume of the most recent 20 bars is above that of the bars
\* before them, in whole numbers: sum / count compared crosswise.
RecentAboveOlder ==
    /\ RecentFrom > OlderFrom
    /\ IntSum(VVolume, RecentFrom, Len(VVolume)) * (RecentFrom - OlderFrom)
           > IntSum(VVolume, OlderFrom, RecentFrom - 1)
                 * (Len(VVolume) - RecentFrom + 1)

\* C26: the volume trend is Increasing exactly when the mean volume of the
\* most recent 20 bars is strictly above the mean volume of the bars before
\* them (the 20 before, or as many as there are), and Decreasing otherwise:
\* so with equal means, and with 20 bars or fewer, where no bar precedes and
\* no error is raised.
C26_VolumeTrendStrict ==
    call.op = "analyze_volume" =>
        /\ results.volume_trend =
               IF RecentAboveOlder THEN "Increasing" ELSE "Decreasing"
        /\ Len(VVolume) <= 20 => results.volume_trend = "Decreasing"

\* C26 witness: 41 bars of the same volume but for one higher bar just
\* before the 40 bars compared: the means are equal, the trend Decreasing.
C26_Witness ==
    /\ call.op = "analyze_volume"
    /\ Len(VVolume) = 41
    /\ VVolume[1] > VVolume[2]
    /\ \A i \in 2..41 : VVolume[i] = VVolume[2]
    /\ results.volume_trend = "Decreasing"

\* Further C26 case: a higher bar at the start of the recent 20 makes the
\* trend Increasing.
IncreasingByOneBar ==
    /\ call.op = "analyze_volume"
    /\ Len(VVolume) = 42
    /\ \A i \in 1..42 : VVolume[i] = (IF i = 23 THEN 2 ELSE 1)
    /\ results.volume_trend = "Increasing"

----------------------------------------------------------------------------
(***************************************************************************)
(* Properties of find_support_resistance, checked under SpecLevels.        *)
(***************************************************************************)
\* The level is one of the levels listed.
Listed(level, levels) == \E i \in 1..Len(levels) : levels[i] = level

\* All clustered levels of the object's frame, of which the result lists
\* the last five.
AllSupports == SupportLevels(Column(heap[self_data], "Low"), 5)
AllResistances == ResistanceLevels(Column(heap[self_data], "High"), 5)

\* How many of the levels are not below, or are above, the price.
NotBelow(levels, price) ==
    Cardinality({i \in 1..Len(levels) : ~FLt(levels[i], price)})

Above(levels, price) ==
    Cardinality({i \in 1..Len(levels) : FGt(levels[i], price)})

\* C27 (as stated): nearest_support, when not None, is one of the at most 5
\* values of the returned support_levels, and nearest_resistance, when not
\* None, is one of the values of the returned resistance_levels.
C27_NearestAmongReturned ==
    call.op = "find_support_resistance" =>
        /\ Len(results.support_levels) <= 5
        /\ Len(results.resistance_levels) <= 5
        /\ results.nearest_support # None =>
               Listed(results.nearest_support, results.support_levels)
        /\ results.nearest_resistance # None =>
               Listed(results.nearest_resistance, results.resistance_levels)

\* C27 (amended): the returned lists hold the 5 highest clustered levels of
\* their side (all of them when there are 5 or fewer).  nearest_support,
\* when not None, is a clustered support level, and is in the returned
\* list exactly when fewer than 5 clustered support levels are at or above
\* the current price; nearest_resistance, when not None, is a clustered
\* resistance level, and is in the returned list exactly when at most 5
\* clustered resistance levels are above the current price.
C27_NearestAmongReturnedIfFewAbove ==
    call.op = "find_support_resistance" =>
        /\ results.support_levels = LastN(AllSupports, 5)
        /\ results.resistance_levels = LastN(AllResistances, 5)
        /\ Len(results.support_levels) <= 5
        /\ Len(results.resistance_levels) <= 5
        /\ results.nearest_support # None =>
               /\ Listed(results.nearest_support, AllSupports)
               /\ Listed(results.nearest_support, results.support_levels)
                      <=> NotBelow(AllSupports, results.current_price) < 5
        /\ results.nearest_resistance # None =>
               /\ Listed(results.nearest_resistance, AllResistances)
               /\ Listed(results.nearest_resistance, results.resistance_levels)
                      <=> Above(AllResistances, results.current_price) <= 5

\* C27 witness: six clustered levels on each side, five supports at or
\* above the price and six resistances above it: neither nearest level is
\* in its returned list.
C27_Witness ==
    /\ call.op = "find_support_resistance"
    /\ Len(AllSupports) = 6 /\ Len(AllResistances) = 6
    /\ results.nearest_support # None
    /\ results.nearest_resistance # None
    /\ ~Listed(results.nearest_support, results.support_levels)
    /\ ~Listed(results.nearest_resistance, results.resistance_levels)

----------------------------------------------------------------------------
(***************************************************************************)
(* Properties of the reported RSI, checked under Spec.                     *)
(***************************************************************************)
\* The signal that the thresholds give for a reported value.
SignalOfValue(value) ==
    IF FGt(value, Num(70)) THEN "Overbought"
    ELSE IF FLt(value, Num(30)) THEN "Oversold"
    ELSE "Neutral"

\* The RSI of the last bar of the analysed series, with the default period.
LastRsi == Last(RsiSeries(SortedInput, 14))

\* C28 (as stated): the reported RSI signal is the one the thresholds give
\* for the reported RSI value (Overbought above 70, Oversold below 30,
\* Neutral otherwise), also when the RSI of the last bar is undefined.
C28_SignalAgreesWithValue ==
    (Analysed /\ results # None) =>
        results.rsi.signal = SignalOfValue(results.rsi.value)

\* C28 (amended): when the RSI of the last bar is defined, it is the
\* reported value and the reported signal is the one the thresholds give
\* for it; when it is undefined, the reported value is 0, the signal
\* Neutral and the interpretation "Insufficient data".
C28_SignalAgreesWithDefinedValue ==
    (Analysed /\ results # None) =>
        IF isna(LastRsi)
            THEN /\ results.rsi.value = Num(0)
                 /\ results.rsi.signal = "Neutral"
                 /\ results.rsi.interpretation = "Insufficient data"
        ELSE /\ results.rsi.value = LastRsi
             /\ results.rsi.signal = SignalOfValue(results.rsi.value)
             /\ results.rsi.interpretation # "Insufficient data"

\* C28 witness: a series of at least 14 bars whose last 14 closes are
\* equal was analysed: the RSI of its last bar is undefined, the value
\* reported is 0 and the signal Neutral.
C28_Witness ==
    /\ Analysed /\ results # None
    /\ Bars >= 14
    /\ isna(LastRsi)
    /\ results.rsi.value = Num(0)
    /\ results.rsi.signal = "Neutral"

\* Further C28 cases: a defined RSI of 0 is reported Oversold, one of 100
\* Overbought, one in between Neutral.
DefinedRsiReported(signal) ==
    /\ Analysed /\ results # None
    /\ ~isna(LastRsi)
    /\ results.rsi.signal = signal

OversoldAtZero == DefinedRsiReported("Oversold") /\ results.rsi.value = Num(0)
OverboughtReported == DefinedRsiReported("Overbought")
NeutralReported == DefinedRsiReported("Neutral")

----------------------------------------------------------------------------
(***************************************************************************)
(* Properties of the confidence over all signal combinations, checked      *)
(* under SpecRec.                                                          *)
(***************************************************************************)
\* The counters as the rules state them, the volume step included.
StatedBuy(r) ==
    StatedBuyBeforeVolume(r)
    + (IF /\ r.volume.volume_trend = "Increasing"
          /\ StatedBuyBeforeVolume(r) > StatedSellBeforeVolume(r)
          THEN 1 ELSE 0)

StatedSell(r) == StatedSellBeforeVolume(r)

\* The confidences of the Buy results and of the Sell results over all
\* signal combinations.
BuyConfidences ==
    {_generate_recommendation(r).confidence :
        r \in {s \in SignalDicts : _generate_recommendation(s).action = "Buy"}}

SellConfidences ==
    {_generate_recommendation(r).confidence :
        r \in {s \in SignalDicts : _generate_recommendation(s).action = "Sell"}}

----------------------------------------------------------------------------
(***************************************************************************)
(* Properties of the order of the MACD_Cross labels, checked under         *)
(* SpecMacd.                                                               *)
(***************************************************************************)
\* Bars i < k carry the same label, Buy or Sell.
SameCross(i, k) ==
    /\ i < k
    /\ CrossAt(i) = CrossAt(k)
    /\ CrossAt(i) \in {"Buy", "Sell"}

Opposite(label) == IF label = "Buy" THEN "Sell" ELSE "Buy"

\* C30 (as stated): Buy and Sell alternate: between any two bars labelled
\* Buy there is a bar labelled Sell, and between any two bars labelled Sell
\* there is a bar labelled Buy.
C30_BuyAndSellAlternate ==
    call.op = "calculate_macd" =>
        \A i, k \in 1..len(heap[self_data]) :
            SameCross(i, k) =>
                \E j \in (i + 1)..(k - 1) : CrossAt(j) = Opposite(CrossAt(i))

\* C30 (amended): between any two bars labelled Buy there is a bar labelled
\* Sell or a bar where the MACD line equals the signal line, and between
\* any two bars labelled Sell there is a bar labelled Buy or a bar where
\* the two lines are equal.
C30_AlternateUnlessLinesTouch ==
    call.op = "calculate_macd" =>
        \A i, k \in 1..len(heap[self_data]) :
            SameCross(i, k) =>
                \E j \in (i + 1)..(k - 1) :
                    CrossAt(j) = Opposite(CrossAt(i)) \/ SideAt(j) = 0

\* C30 witness: two bars labelled Buy with no Sell between them, the lines
\* being equal at the bar between.
C30_Witness ==
    /\ call.op = "calculate_macd"
    /\ \E i, k \in 1..len(heap[self_data]) :
           /\ SameCross(i, k) /\ CrossAt(i) = "Buy"
           /\ \A j \in (i + 1)..(k - 1) : CrossAt(j) = "Hold"
           /\ \E j \in (i + 1)..(k - 1) : SideAt(j) = 0

\* Further C30 case: a Sell between two bars labelled Buy.
BuySellBuy ==
    /\ call.op = "calculate_macd"
    /\ \E i, j, k \in 1..len(heap[self_data]) :
           /\ i < j /\ j < k
           /\ CrossAt(i) = "Buy" /\ CrossAt(j) = "Sell" /\ CrossAt(k) = "Buy"

====
